---------------------------- MODULE Spec2Model ----------------------------
(***************************************************************************)
(* Model of the EUM AI server.  The repository holds two revisions of the  *)
(* server; a process runs one of them.                                     *)
(*   ai-server/server_openvoice_v2.py: the streaming endpoint              *)
(*     websocket_tts, the orchestrator TTSPipeline.synthesize_streaming,   *)
(*     the lazy per-language model map and the tiered signature store read *)
(*     by SpeakerEmbeddingManager;                                         *)
(*   ai-server/server.py: the streaming endpoint websocket_tts over the    *)
(*     XTTS chunk generator, with the signatures of the enrolled users in  *)
(*     memory only (user_latents).  Its definitions carry the prefix       *)
(*     xtts_.                                                              *)
(*                                                                         *)
(* One handler coroutine runs per connection.  An action of a handler is   *)
(* the code between two suspension points (await): the event loop runs it  *)
(* without interleaving.  The client side of a connection (sending a       *)
(* request message, dropping the connection) is the environment.           *)
(***************************************************************************)
EXTENDS Integers, Sequences, FiniteSets, TLC

(***************************************************************************)
(* Bounds of the model.                                                    *)
(***************************************************************************)
\* Request messages a client sends on one connection.
MaxRequests == 2
\* Request messages the transport buffers while the handler is busy.
MaxInbox == 1
\* Chunks the XTTS generator yields for one request.
MaxChunks == 2
\* Restarts of the process.
MaxRestarts == 1
\* Samples of an audio buffer handed to enhance_with_deepfilter.
MaxSamples == 3
\* Longest text handed to split_into_sentences.
MaxText == 5

None == "None"

(***************************************************************************)
(* Inputs.  A text is a sequence of characters, each one of:               *)
(*   "a", "b"  a letter;  "sp"  a white-space character;                   *)
(*   "dot"     a Western sentence-final mark (one of . ! ?);               *)
(*   "cdot"    a CJK sentence-final mark (one of the full-width marks).    *)
(***************************************************************************)
Conns == {"c1"}
Users == {"u1", "u2", "ghost"}
Sigs  == {"s1", "s2"}

TextOne    == <<"a">>
TextTwo    == <<"a", "dot", "sp", "b", "dot">>
TextMixed  == <<"a", "dot", "b", "cdot", "sp", "a">>
TextBlank  == <<"sp">>
\* The value of data["text"]: the key is missing, a number (truthy, not a
\* string), or a string (possibly empty).
TextMissing == [ty |-> "missing", s |-> <<>>]
TextNumber  == [ty |-> "num", s |-> <<>>]
TextString(t) == [ty |-> "str", s |-> t]

\* The value of data["language"]: the key is missing, or a string.
NoKey == "<missing>"

\* A text frame received from the client: not JSON at all, JSON that is not
\* an object, or a JSON object.  An s3_key names the user whose remote
\* object it addresses.
NotJson   == [kind |-> "notjson", text |-> TextMissing, language |-> NoKey, s3_key |-> None]
NotObject == [kind |-> "notobject", text |-> TextMissing, language |-> NoKey, s3_key |-> None]
Request(t, l, k) == [kind |-> "object", text |-> t, language |-> l, s3_key |-> k]
Messages ==
    {NotJson, NotObject,
     Request(TextMissing, NoKey, None),
     Request(TextNumber, NoKey, None),
     Request(TextNumber, "fr", None),
     Request(TextString(<<>>), "fr", None),
     Request(TextString(TextOne), "en", None),
     Request(TextString(TextTwo), "en", None),
     Request(TextString(TextTwo), "fr", None),
     Request(TextString(TextMixed), NoKey, None),
     Request(TextString(TextBlank), "en", None),
     Request(TextString(TextTwo), "en", "u2")}

\* What the engines do on one sentence of a request.
Outcomes == {"ok", "melo_fail", "convert_fail"}

\* What one step of the XTTS chunk generator does when it is not exhausted:
\* it yields a chunk, yields None, or raises.
ChunkOutcomes == {"ok", "none", "raise"}

(***************************************************************************)
(* Configuration of the program.                                           *)
(***************************************************************************)
LANGUAGE_CONFIG == {"ko", "en", "ja", "zh"}
DEFAULT_LANGUAGE == "ko"

CLOSE_NOT_ENROLLED == 4001
CLOSE_MODEL_NOT_LOADED == 4002
CLOSE_INTERNAL_ERROR == 4000

VARIABLES
    revision,               \* the revision the process runs: "openvoice_v2" or "xtts"
    \* process-wide state of server.py
    tts_model,              \* whether the XTTS model is loaded
    user_latents,           \* users whose latents are held in memory
    \* process-wide state of server_openvoice_v2.py
    user_embeddings_cache,  \* memory tier: user -> signature or None
    local_files,            \* local tier (USER_EMBEDDINGS_DIR): user -> signature or None
    s3_objects,             \* remote tier: user -> signature or None
    s3_manager,             \* whether the S3 manager was initialised
    tone_color_converter,   \* whether the conversion engine is loaded
    melo_models,            \* languages whose synthesis model is loaded
    source_embeddings,      \* languages whose source signature is cached
    \* one handler per connection
    pc,                     \* where the handler of the connection stands
    user_id,                \* path parameter of the connection
    target_se,              \* signature resolved at connect
    data,                   \* the request message being processed
    sentences,              \* sentences of the request being synthesized
    idx,                    \* position in the sentence loop (1-based)
    detail,                 \* text of the error message about to be sent
    \* transport of the connection
    transport,              \* "connecting", "open", "gone" (client left), "closed" (server closed)
    close_code,             \* the close code the server has sent, if any (a set)
    inbox,                  \* request messages sent by the client and not yet read
    \* observation of one request (reset when the next request is read)
    out,                    \* messages delivered to the client for the current request
    req_no,                 \* number of request messages read on the connection
    results,                \* what the engines did on each sentence (chunk) of the request so far
    engine_calls,           \* engine calls (model load, synthesis, conversion) made for the request
    write_failed,           \* a write of the request failed because the transport is closed
    client_sent,            \* request messages the client has sent
    \* calls on the store and the HTTP endpoints
    call,                   \* the call completed last and what it answered
    epoch,                  \* restarts of the process so far
    enh,                    \* the enhance_with_deepfilter call made last
    \* the event loop
    loop,                   \* the task whose code is running, or None
    tasks,                  \* position of each task on the event loop
    tmp_files               \* the temporary files of synthesize_streaming, by sentence index

xttsVars == <<tts_model, user_latents>>
httpVars == <<call, epoch, enh>>
loopVars == <<loop, tasks, tmp_files>>
procVars == <<revision, xttsVars, httpVars, loopVars, user_embeddings_cache, local_files, s3_objects,
              s3_manager, tone_color_converter, melo_models, source_embeddings>>
sessVars == <<pc, user_id, target_se, data, sentences, idx, detail>>
wireVars == <<transport, close_code, inbox, client_sent>>
obsVars  == <<out, req_no, results, engine_calls, write_failed>>
vars == <<procVars, sessVars, wireVars, obsVars>>


(***************************************************************************)
(* TTSPipeline.split_into_sentences: re.split on a look-behind for a       *)
(* sentence-final mark followed by white space (zero or more characters    *)
(* for ko/ja/zh, one or more otherwise), then strip and drop the empty     *)
(* pieces.                                                                 *)
(***************************************************************************)
IsSpace(ch) == ch = "sp"
WESTERN_FINAL == {"dot"}
CJK_FINAL == {"dot", "cdot"}
CJK_LANGUAGES == {"ko", "ja", "zh"}

RECURSIVE WsRun(_, _)
\* Length of the run of white space of t that starts at position p.
WsRun(t, p) == IF p > Len(t) \/ ~IsSpace(t[p]) THEN 0 ELSE 1 + WsRun(t, p + 1)

RECURSIVE re_split(_, _, _, _, _)
\* re.split(r'(?<=[final])\s{minWs,}', t): the pieces of t from offset
\* start on, scanning for a match that begins right after character p.
re_split(t, final, minWs, start, p) ==
    IF p > Len(t) THEN <<SubSeq(t, start + 1, Len(t))>>
    ELSE IF t[p] \in final /\ WsRun(t, p + 1) >= minWs
         THEN <<SubSeq(t, start + 1, p)>>
              \o re_split(t, final, minWs, p + WsRun(t, p + 1), p + WsRun(t, p + 1) + 1)
         ELSE re_split(t, final, minWs, start, p + 1)

RECURSIVE lstrip(_)
lstrip(s) == IF s # <<>> /\ IsSpace(Head(s)) THEN lstrip(Tail(s)) ELSE s
RECURSIVE rstrip(_)
rstrip(s) == IF s # <<>> /\ IsSpace(s[Len(s)]) THEN rstrip(SubSeq(s, 1, Len(s) - 1)) ELSE s
strip(s) == rstrip(lstrip(s))

\* Variant of split_into_sentences that uses the Western pattern for every
\* language.
split_into_sentences_western(text, language) ==
    LET parts == re_split(text, WESTERN_FINAL, 1, 0, 1)
        stripped == [k \in 1..Len(parts) |-> strip(parts[k])]
    IN  SelectSeq(stripped, LAMBDA s : s # <<>>)

split_into_sentences(text, language) ==
    LET parts == IF language \in CJK_LANGUAGES
                 THEN re_split(text, CJK_FINAL, 0, 0, 1)
                 ELSE re_split(text, WESTERN_FINAL, 1, 0, 1)
        stripped == [k \in 1..Len(parts) |-> strip(parts[k])]
    IN  SelectSeq(stripped, LAMBDA s : s # <<>>)

(***************************************************************************)
(* SpeakerEmbeddingManager.get_embedding(user_id, s3_key): memory, then    *)
(* the local file (populating memory), then S3 when a key is given and the *)
(* manager exists (populating memory and the local file).  A key names the *)
(* user whose object it addresses; dl_ok is whether the download succeeds. *)
(* The result carries the tiers as the call leaves them and whether        *)
(* download_embedding was called.                                          *)
(***************************************************************************)
\* Variant of get_embedding that returns what it downloads without keeping it.
get_embedding_no_populate(u, s3_key, dl_ok) ==
    IF user_embeddings_cache[u] # None
    THEN [se |-> user_embeddings_cache[u], cache |-> user_embeddings_cache,
          local |-> local_files, remote |-> FALSE]
    ELSE IF local_files[u] # None
    THEN [se |-> local_files[u],
          cache |-> [user_embeddings_cache EXCEPT ![u] = local_files[u]],
          local |-> local_files, remote |-> FALSE]
    ELSE [se |-> IF s3_key # None /\ s3_manager /\ dl_ok
                 THEN s3_objects[s3_key] ELSE None,
          cache |-> user_embeddings_cache, local |-> local_files,
          remote |-> (s3_key # None /\ s3_manager)]

get_embedding(u, s3_key, dl_ok) ==
    IF user_embeddings_cache[u] # None
    THEN [se |-> user_embeddings_cache[u], cache |-> user_embeddings_cache,
          local |-> local_files, remote |-> FALSE]
    ELSE IF local_files[u] # None
    THEN [se |-> local_files[u],
          cache |-> [user_embeddings_cache EXCEPT ![u] = local_files[u]],
          local |-> local_files, remote |-> FALSE]
    ELSE IF s3_key # None /\ s3_manager /\ dl_ok /\ s3_objects[s3_key] # None
    THEN [se |-> s3_objects[s3_key],
          cache |-> [user_embeddings_cache EXCEPT ![u] = s3_objects[s3_key]],
          local |-> [local_files EXCEPT ![u] = s3_objects[s3_key]],
          remote |-> TRUE]
    ELSE [se |-> None, cache |-> user_embeddings_cache, local |-> local_files,
          remote |-> (s3_key # None /\ s3_manager)]


(***************************************************************************)
(* The asyncio event loop.  uvicorn runs the application on one event loop *)
(* in one thread: the code of a coroutine between two awaits runs without  *)
(* another coroutine running, and neither revision hands an engine call to *)
(* an executor or a thread.  loop is the task whose code is running (None  *)
(* while every task is waiting at an await); a task is a streaming session *)
(* (c1, c2) or an enrollment request (e1).                                 *)
(***************************************************************************)
Sessions == {"c1", "c2"}
Enrollments == {"e1"}
Tasks == Sessions \cup Enrollments
LoopLanguages == {"ko", "en"}

\* Where a task waits at an await, and where it is inside an engine call.
AwaitPcs == {"connecting", "await_receive", "await_send_bytes",
             "await_send_complete", "await_send_error", "await_read",
             "responded"}
EnginePcs == {"melo_loading", "src_deriving", "synth", "convert", "extracting"}

InitTasks ==
    [t \in Tasks |->
        [pc |-> IF t \in Sessions THEN "connecting" ELSE "await_read",
         language |-> DEFAULT_LANGUAGE, left |-> 0, reqs |-> 0,
         n |-> 0, audio |-> None]]

\* /tmp/tts_base_{i}.wav and /tmp/tts_out_{i}.wav (lines 353-354), named by
\* the index of the sentence alone: absent (None), or the session whose
\* sentence the base audio renders, and for the converted audio also the
\* session whose signature it was converted with.
NoFile == [base |-> None, out |-> None]
NoFiles == [i \in 0..(MaxChunks - 1) |-> NoFile]

\* Sample rates of the XTTS engine and of DeepFilterNet.
SAMPLE_RATE_XTTS == 24000
SAMPLE_RATE_DF == 48000
\* Output sample rate of server_openvoice_v2.py.
SAMPLE_RATE_OUTPUT == 24000

\* No call of enhance_with_deepfilter has been made.
NoEnhance ==
    [audio |-> [rate |-> SAMPLE_RATE_XTTS, samples |-> 0, enhanced |-> FALSE],
     df |-> "unavailable", engine |-> "unused",
     out |-> [status |-> "none",
              audio |-> [rate |-> SAMPLE_RATE_XTTS, samples |-> 0,
                         enhanced |-> FALSE]],
     flag |-> FALSE, by |-> "none"]

\* What a call on the store or on an HTTP endpoint was given and answered:
\* the operation, its user_id and s3_key arguments, the signature extracted
\* from the uploaded audio, the HTTP status, the signature returned, and
\* what was done with the remote tier ("no": no S3 call was made, "asked":
\* the S3 call returned, "failed": it raised inside the S3 manager); with
\* it, the operation, signature and status of the call before it.
NoPrev == [op |-> "none", sig |-> None, status |-> "200"]
NoCall ==
    [op |-> "none", user |-> None, key |-> None, sig |-> None, status |-> "200",
     se |-> None, remote |-> "no", prev |-> NoPrev]
Answer(op, u, k, s, status, se, remote) ==
    [op |-> op, user |-> u, key |-> k, sig |-> s, status |-> status,
     se |-> se, remote |-> remote,
     prev |-> [op |-> call.op, sig |-> call.sig, status |-> call.status]]

(***************************************************************************)
(* Initial state: the process has just started.                            *)
(* server_openvoice_v2.py: the memory tier is empty; u1 was enrolled by an *)
(* earlier run of this instance (local file and remote object), u2 was     *)
(* enrolled on another instance (remote object only), ghost was never      *)
(* enrolled.  The conversion engine is loaded by lifespan, or still None   *)
(* when the application is served without the lifespan start-up; the       *)
(* pre-load of the Korean model may have failed.                           *)
(* server.py: lifespan has loaded the XTTS model and u1 has enrolled       *)
(* since, or the application is served without the lifespan start-up: the  *)
(* model is None and nobody can have enrolled (enroll_voice answers 503).  *)
(***************************************************************************)
Init ==
    /\ revision \in {"openvoice_v2", "xtts"}
    /\ IF revision = "xtts"
       THEN /\ tts_model \in BOOLEAN
            /\ user_latents = (IF tts_model THEN {"u1"} ELSE {})
            /\ tone_color_converter = FALSE
            /\ melo_models = {}
       ELSE /\ tts_model = FALSE
            /\ user_latents = {}
            /\ tone_color_converter \in BOOLEAN
            /\ melo_models \in {{}, {"ko"}}
    /\ user_embeddings_cache = [u \in Users |-> None]
    /\ local_files = [u \in Users |-> IF u = "u1" THEN "s1" ELSE None]
    /\ s3_objects = [u \in Users |-> CASE u = "u1" -> "s1" [] u = "u2" -> "s2" [] OTHER -> None]
    /\ s3_manager = TRUE
    /\ source_embeddings = {}
    /\ pc = [c \in Conns |-> "connecting"]
    /\ user_id = [c \in Conns |-> None]
    /\ target_se = [c \in Conns |-> None]
    /\ data = [c \in Conns |-> None]
    /\ sentences = [c \in Conns |-> <<>>]
    /\ idx = [c \in Conns |-> 0]
    /\ detail = [c \in Conns |-> None]
    /\ transport = [c \in Conns |-> "connecting"]
    /\ close_code = [c \in Conns |-> {}]
    /\ inbox = [c \in Conns |-> <<>>]
    /\ out = [c \in Conns |-> <<>>]
    /\ req_no = [c \in Conns |-> 0]
    /\ results = [c \in Conns |-> <<>>]
    /\ engine_calls = [c \in Conns |-> 0]
    /\ write_failed = [c \in Conns |-> FALSE]
    /\ client_sent = [c \in Conns |-> 0]
    /\ call = NoCall
    /\ epoch = 0
    /\ enh = NoEnhance
    /\ loop = None
    /\ tasks = InitTasks
    /\ tmp_files = NoFiles

(***************************************************************************)
(* Messages the server sends.                                              *)
(***************************************************************************)
Frame(i)      == [type |-> "bytes", idx |-> i, text |-> None]
ErrorMsg(d)   == [type |-> "error", idx |-> 0, text |-> d]
StatusComplete == [type |-> "status", idx |-> 0, text |-> "complete"]

\* Variant of on_handler_exception without the last except clause: the
\* handler ends and no close code is sent.
on_handler_exception_silent(exc) == "closed"

\* The except clauses of the request loop (lines 850-854; server.py
\* 543-547): a WebSocketDisconnect ends the handler, any other exception
\* closes the connection with code 4000 first.
on_handler_exception(exc) ==
    IF exc = "WebSocketDisconnect" THEN "closed" ELSE "close_4000"

\* Variant of model_not_loaded in which the check is missing.
model_not_loaded_never(model) == FALSE

\* The test for the engine, `if tone_color_converter is None` (lines 652,
\* 723 and 810), `if tts_model is None` (server.py 356 and 465).
model_not_loaded(model) == ~model

(***************************************************************************)
(* websocket_tts, lines 799-813: accept, resolve the signature of the user *)
(* (no s3_key is passed), and choose between the two rejections and the    *)
(* request loop.                                                           *)
(***************************************************************************)
\* Variant of not_enrolled in which the signature check is missing.
not_enrolled_never(se) == FALSE

not_enrolled(se) == se = None

websocket_tts_accept(c) ==
    /\ revision = "openvoice_v2"
    /\ pc[c] = "connecting"
    /\ \E u \in Users :
         LET r == get_embedding(u, None, TRUE) IN
         /\ user_id' = [user_id EXCEPT ![c] = u]
         /\ target_se' = [target_se EXCEPT ![c] = r.se]
         /\ user_embeddings_cache' = r.cache
         /\ local_files' = r.local
         /\ pc' = [pc EXCEPT ![c] =
                     IF not_enrolled(r.se) THEN "reject_4001"
                     ELSE IF model_not_loaded(tone_color_converter) THEN "reject_4002"
                     ELSE "ready"]
    /\ transport' = [transport EXCEPT ![c] = "open"]
    /\ UNCHANGED <<revision, loopVars, xttsVars, httpVars, s3_objects, s3_manager,
                   tone_color_converter,
                   melo_models, source_embeddings, data, sentences, idx, detail,
                   close_code, inbox, client_sent, obsVars>>

\* Lines 806-808 and 811-813: send the error message, close with the code,
\* return.  A send on a transport the client has left raises, and the
\* exception leaves the handler (these lines are outside the try block).
websocket_tts_reject(c) ==
    /\ revision = "openvoice_v2"
    /\ pc[c] \in {"reject_4001", "reject_4002"}
    /\ IF transport[c] = "open"
       THEN /\ out' = [out EXCEPT ![c] = Append(@,
                        ErrorMsg(IF pc[c] = "reject_4001" THEN "User not enrolled"
                                 ELSE "Model not loaded"))]
            /\ close_code' = [close_code EXCEPT ![c] =
                        IF pc[c] = "reject_4001" THEN {CLOSE_NOT_ENROLLED}
                        ELSE {CLOSE_MODEL_NOT_LOADED}]
            /\ transport' = [transport EXCEPT ![c] = "closed"]
            /\ UNCHANGED write_failed
       ELSE /\ write_failed' = [write_failed EXCEPT ![c] = TRUE]
            /\ UNCHANGED <<out, close_code, transport>>
    /\ pc' = [pc EXCEPT ![c] = "closed"]
    /\ UNCHANGED <<procVars, user_id, target_se, data, sentences, idx, detail,
                   inbox, client_sent, req_no, results, engine_calls>>


(***************************************************************************)
(* ModelManager.get_melo_model(language): ValueError for a language that   *)
(* is not configured; otherwise the cached model, or a load (an engine     *)
(* call, which succeeds or raises) that is cached when it succeeds.        *)
(***************************************************************************)
get_melo_model(language, models, load_ok) ==
    IF language \notin LANGUAGE_CONFIG
    THEN [raised |-> TRUE, detail |-> "Unsupported language", models |-> models, calls |-> 0]
    ELSE IF language \in models
    THEN [raised |-> FALSE, detail |-> None, models |-> models, calls |-> 0]
    ELSE IF load_ok
    THEN [raised |-> FALSE, detail |-> None, models |-> models \cup {language}, calls |-> 1]
    ELSE [raised |-> TRUE, detail |-> "TTS error", models |-> models, calls |-> 1]

(***************************************************************************)
(* ModelManager.get_source_embedding(language): the cached source          *)
(* signature, or one that is loaded from the checkpoint file or derived    *)
(* from a canned phrase (engine calls, which succeed or raise) and cached. *)
(***************************************************************************)
get_source_embedding(language, srcs, se_ok) ==
    IF language \notin LANGUAGE_CONFIG
    THEN [raised |-> TRUE, detail |-> "Unsupported language", srcs |-> srcs, calls |-> 0]
    ELSE IF language \in srcs
    THEN [raised |-> FALSE, detail |-> None, srcs |-> srcs, calls |-> 0]
    ELSE IF se_ok
    THEN [raised |-> FALSE, detail |-> None, srcs |-> srcs \cup {language}, calls |-> 1]
    ELSE [raised |-> TRUE, detail |-> "TTS error", srcs |-> srcs, calls |-> 1]

\* Variant of loop_pc that returns after the loop without the completion
\* message.
loop_pc_silent(k, n) == IF k > n THEN "ready" ELSE "sentence"

\* Variant of loop_pc that leaves the loop one position early.
loop_pc_early(k, n) == IF k >= n THEN "send_complete" ELSE "sentence"

\* The pc of the sentence loop at position k of n: the next sentence, or
\* the completion message after the loop (line 388).
loop_pc(k, n) == IF k > n THEN "send_complete" ELSE "sentence"

\* Variant of enumerate_sentences that visits the sentences last to first.
enumerate_sentences_reversed(k, n) == n + 1 - k

\* for i, sentence in enumerate(sentences): the sentence visited at
\* position k of the loop.
enumerate_sentences(k, n) == k

(***************************************************************************)
(* TTSPipeline.synthesize_streaming, lines 341-347: segmentation with the  *)
(* whole text as fall-back, then the model and the source signature of     *)
(* the language.  An exception here leaves synthesize_streaming.           *)
(***************************************************************************)
\* Variant of or_whole_text that keeps an empty list.
or_whole_text_never(sents, text) == sents

\* synthesize_streaming, lines 342-343: if not sentences: sentences = [text].
or_whole_text(sents, text) == IF sents = <<>> THEN <<text>> ELSE sents

synthesize_streaming_begin(text, language, load_ok, se_ok) ==
    LET split == split_into_sentences(text, language)
        sents == or_whole_text(split, text)
        melo  == get_melo_model(language, melo_models, load_ok)
        src   == get_source_embedding(language, source_embeddings, se_ok)
    IN  IF melo.raised
        THEN [raised |-> TRUE, detail |-> melo.detail, sentences |-> <<>>,
              models |-> melo.models, srcs |-> source_embeddings, calls |-> melo.calls]
        ELSE IF src.raised
        THEN [raised |-> TRUE, detail |-> src.detail, sentences |-> <<>>,
              models |-> melo.models, srcs |-> src.srcs, calls |-> melo.calls + src.calls]
        ELSE [raised |-> FALSE, detail |-> None, sentences |-> sents,
              models |-> melo.models, srcs |-> src.srcs, calls |-> melo.calls + src.calls]

\* Lines 818-819: data.get("text", "") and data.get("language", "ko").
message_text(m) == IF m.text = TextMissing THEN TextString(<<>>) ELSE m.text
message_language(m) == IF m.language = NoKey THEN DEFAULT_LANGUAGE ELSE m.language

\* Python truthiness of the text: an empty string is falsy.
falsy(text) == text.ty = "str" /\ text.s = <<>>

\* Variant of language_supported in which the check of line 833 is missing.
language_supported_any(language) == TRUE

language_supported(language) == language \in LANGUAGE_CONFIG

\* Variant of needs_lookup that resolves the signature again for every
\* request that carries an s3_key.
needs_lookup_always(s3_key, se) == s3_key # None

\* Line 823, `if s3_key and target_se is None`: the handler looks a
\* signature up for a request only while it holds none.
needs_lookup(s3_key, se) == s3_key # None /\ se = None

(***************************************************************************)
(* websocket_tts, lines 817-848, from the message receive_json returns to  *)
(* the next suspension point: what the handler does with message m.        *)
(* The result names the next pc, the error text to send, and the state     *)
(* the step leaves.                                                        *)
(***************************************************************************)
handle_message(c, m, load_ok, se_ok, dl_ok) ==
    LET same == [pc |-> "ready", detail |-> None, sentences |-> <<>>,
                 models |-> melo_models, srcs |-> source_embeddings, calls |-> 0,
                 se |-> target_se[c], cache |-> user_embeddings_cache,
                 local |-> local_files]
        text == message_text(m)
        language == message_language(m)
        \* lines 822-824: only when the handler holds no signature
        lookup == needs_lookup(m.s3_key, target_se[c])
        got == IF lookup THEN get_embedding(user_id[c], m.s3_key, dl_ok)
               ELSE [se |-> target_se[c], cache |-> user_embeddings_cache,
                     local |-> local_files, remote |-> FALSE]
        kept == [same EXCEPT !.se = got.se, !.cache = got.cache, !.local = got.local]
        begin == synthesize_streaming_begin(text.s, language, load_ok, se_ok)
    IN  IF m.kind # "object"
        \* receive_json raises JSONDecodeError, or data.get raises
        \* AttributeError: caught at line 852
        THEN [same EXCEPT !.pc = on_handler_exception("Exception")]
        ELSE IF lookup /\ got.se = None
        THEN [kept EXCEPT !.pc = "send_error", !.detail = "Failed to load embedding"]
        ELSE IF falsy(text)
        THEN [kept EXCEPT !.pc = "send_error", !.detail = "Empty text"]
        ELSE IF ~language_supported(language)
        THEN [kept EXCEPT !.pc = "send_error", !.detail = "Unsupported language"]
        ELSE IF text.ty # "str"
        \* line 837: text[:50] raises TypeError, caught at line 852
        THEN [kept EXCEPT !.pc = on_handler_exception("Exception")]
        ELSE IF begin.raised
        \* caught at line 846
        THEN [kept EXCEPT !.pc = "send_error", !.detail = begin.detail,
                          !.models = begin.models, !.srcs = begin.srcs,
                          !.calls = begin.calls]
        ELSE [kept EXCEPT !.pc = loop_pc(1, Len(begin.sentences)),
                          !.sentences = begin.sentences,
                          !.models = begin.models, !.srcs = begin.srcs,
                          !.calls = begin.calls]

\* The outcomes of an external call: it succeeds or fails when it is made,
\* and is not drawn when the code does not make it.
Choices(called) == IF called THEN BOOLEAN ELSE {TRUE}

\* Variant of can_receive in which a message is also read while a frame of
\* the current request is being sent.
can_receive_while_sending(p) == p \in {"ready", "send_bytes"}

\* The handler reads a request message only at line 817, in the loop.
can_receive(p) == p = "ready"

\* Variant of on_disconnect that drops the user's signature from memory
\* when its connection ends.
on_disconnect_evicting(tier, u) == [tier EXCEPT ![u] = None]

\* except WebSocketDisconnect (lines 850-851; server.py 543-544): a log
\* line, and the handler returns; the store keeps what it held.
on_disconnect(tier, u) == tier

websocket_tts_receive(c) ==
    /\ revision = "openvoice_v2"
    /\ can_receive(pc[c])
    /\ \/ \* the client has left and nothing is buffered: WebSocketDisconnect (line 850)
          /\ inbox[c] = <<>>
          /\ transport[c] = "gone"
          /\ pc' = [pc EXCEPT ![c] = "closed"]
          /\ user_embeddings_cache' = on_disconnect(user_embeddings_cache, user_id[c])
          /\ UNCHANGED <<revision, loopVars, xttsVars, httpVars, local_files, s3_objects,
                         s3_manager, tone_color_converter, melo_models,
                         source_embeddings, user_id, target_se, data, sentences,
                         idx, detail, wireVars, obsVars>>
       \/ /\ inbox[c] # <<>>
          /\ \E load_ok \in Choices(message_language(Head(inbox[c])) \notin melo_models),
                se_ok \in Choices(message_language(Head(inbox[c])) \notin source_embeddings),
                dl_ok \in Choices(Head(inbox[c]).s3_key # None /\ target_se[c] = None) :
               LET h == handle_message(c, Head(inbox[c]), load_ok, se_ok, dl_ok) IN
               /\ pc' = [pc EXCEPT ![c] = h.pc]
               /\ detail' = [detail EXCEPT ![c] = h.detail]
               /\ sentences' = [sentences EXCEPT ![c] = h.sentences]
               /\ idx' = [idx EXCEPT ![c] = 1]
               /\ melo_models' = h.models
               /\ source_embeddings' = h.srcs
               /\ target_se' = [target_se EXCEPT ![c] = h.se]
               /\ user_embeddings_cache' = h.cache
               /\ local_files' = h.local
               /\ engine_calls' = [engine_calls EXCEPT ![c] = h.calls]
               /\ results' = [results EXCEPT ![c] = <<>>]
          /\ data' = [data EXCEPT ![c] = Head(inbox[c])]
          /\ inbox' = [inbox EXCEPT ![c] = Tail(@)]
          /\ req_no' = [req_no EXCEPT ![c] = @ + 1]
          /\ out' = [out EXCEPT ![c] = <<>>]
          /\ write_failed' = [write_failed EXCEPT ![c] = FALSE]
          /\ UNCHANGED <<revision, loopVars, xttsVars, httpVars, s3_objects, s3_manager,
                         tone_color_converter, user_id, transport, close_code,
                         client_sent>>


\* Line 380 (continue) and the end of the loop body: the loop goes on with
\* the next position.
next_position(k) == k + 1

\* Variant of on_sentence_error that leaves the loop (break).
on_sentence_error_break(k, n) == n + 1

\* Lines 378-380: an exception in the loop body is logged and the loop
\* continues with the next sentence.
on_sentence_error(k, n) == next_position(k)

(***************************************************************************)
(* synthesize_streaming, lines 349-373 of one loop iteration: skip an      *)
(* empty sentence; synthesis engine (melo.tts_to_file), conversion engine  *)
(* (tone_color_converter.convert), load of the result.  When an engine     *)
(* raises, the except clause logs and continues with the next sentence     *)
(* (the finally clause removes the temporary files); otherwise the frame   *)
(* is about to be sent.                                                    *)
(***************************************************************************)
synthesize_sentence(c) ==
    /\ revision = "openvoice_v2"
    /\ pc[c] = "sentence"
    /\ LET n == Len(sentences[c])
           i == enumerate_sentences(idx[c], n)
       IN  IF sentences[c][i] = <<>>
           THEN /\ idx' = [idx EXCEPT ![c] = next_position(@)]
                /\ pc' = [pc EXCEPT ![c] = loop_pc(next_position(idx[c]), n)]
                /\ results' = [results EXCEPT ![c] = Append(@, "skipped")]
                /\ UNCHANGED engine_calls
           ELSE \E o \in Outcomes :
                /\ results' = [results EXCEPT ![c] = Append(@, o)]
                /\ IF o = "ok"
                   THEN /\ pc' = [pc EXCEPT ![c] = "send_bytes"]
                        /\ engine_calls' = [engine_calls EXCEPT ![c] = @ + 2]
                        /\ UNCHANGED idx
                   ELSE /\ idx' = [idx EXCEPT ![c] = on_sentence_error(@, n)]
                        /\ pc' = [pc EXCEPT ![c] = loop_pc(on_sentence_error(idx[c], n), n)]
                        /\ engine_calls' = [engine_calls EXCEPT ![c] =
                                              @ + (IF o = "melo_fail" THEN 1 ELSE 2)]
    /\ UNCHANGED <<procVars, user_id, target_se, data, sentences, detail,
                   wireVars, out, req_no, write_failed>>

(***************************************************************************)
(* synthesize_streaming, lines 374-386: await websocket.send_bytes.  A     *)
(* send on a transport the client has left raises; the except clause of    *)
(* line 378 catches it like an engine failure and the loop continues.      *)
(***************************************************************************)
synthesize_send_bytes(c) ==
    /\ revision = "openvoice_v2"
    /\ pc[c] = "send_bytes"
    /\ LET n == Len(sentences[c])
           i == enumerate_sentences(idx[c], n)
       IN  /\ IF transport[c] = "open"
              THEN /\ out' = [out EXCEPT ![c] = Append(@, Frame(i))]
                   /\ UNCHANGED write_failed
              ELSE /\ write_failed' = [write_failed EXCEPT ![c] = TRUE]
                   /\ UNCHANGED out
           /\ idx' = [idx EXCEPT ![c] =
                        IF transport[c] = "open" THEN next_position(@)
                        ELSE on_sentence_error(@, n)]
           /\ pc' = [pc EXCEPT ![c] =
                        loop_pc(IF transport[c] = "open" THEN next_position(idx[c])
                                ELSE on_sentence_error(idx[c], n), n)]
    /\ UNCHANGED <<procVars, user_id, target_se, data, sentences, detail,
                   wireVars, req_no, results, engine_calls>>

(***************************************************************************)
(* synthesize_streaming, line 388: the completion message, then back to    *)
(* receive_json.  When the send raises, the exception leaves               *)
(* synthesize_streaming and is caught at line 846, which sends an error    *)
(* message.                                                                *)
(***************************************************************************)
synthesize_send_complete(c) ==
    /\ revision = "openvoice_v2"
    /\ pc[c] = "send_complete"
    /\ IF transport[c] = "open"
       THEN /\ out' = [out EXCEPT ![c] = Append(@, StatusComplete)]
            /\ pc' = [pc EXCEPT ![c] = "ready"]
            /\ UNCHANGED <<write_failed, detail>>
       ELSE /\ write_failed' = [write_failed EXCEPT ![c] = TRUE]
            /\ pc' = [pc EXCEPT ![c] = "send_error"]
            /\ detail' = [detail EXCEPT ![c] = "TTS error"]
            /\ UNCHANGED out
    /\ UNCHANGED <<procVars, user_id, target_se, data, sentences, idx,
                   wireVars, req_no, results, engine_calls>>

\* Variant of after_inline_error in which an exception of the orchestrator
\* ends the session.
after_inline_error_fatal(d) == IF d = "TTS error" THEN "close_4000" ELSE "ready"

\* After the send_json of an inline error (lines 826-827, 830-831, 834-835
\* and 848; server.py 486-487 and 541) the while loop goes back to
\* receive_json.
after_inline_error(d) == "ready"

(***************************************************************************)
(* websocket_tts, lines 826, 830, 834 and 848: an inline error message,    *)
(* then back to receive_json.  When the send raises, the exception is a    *)
(* WebSocketDisconnect (line 850: the handler returns) or another          *)
(* exception (line 852: close with 4000), as the framework decides.        *)
(***************************************************************************)
websocket_tts_send_error(c) ==
    /\ revision = "openvoice_v2"
    /\ pc[c] = "send_error"
    /\ IF transport[c] = "open"
       THEN /\ out' = [out EXCEPT ![c] = Append(@, ErrorMsg(detail[c]))]
            /\ pc' = [pc EXCEPT ![c] = after_inline_error(detail[c])]
            /\ UNCHANGED write_failed
       ELSE /\ write_failed' = [write_failed EXCEPT ![c] = TRUE]
            /\ \E exc \in {"WebSocketDisconnect", "Exception"} :
                 pc' = [pc EXCEPT ![c] = on_handler_exception(exc)]
            /\ UNCHANGED out
    /\ UNCHANGED <<procVars, user_id, target_se, data, sentences, idx, detail,
                   wireVars, req_no, results, engine_calls>>

\* Lines 852-854: close with code 4000; the handler ends.  On a transport
\* the client has left nothing reaches the client.
websocket_tts_close_4000(c) ==
    /\ revision = "openvoice_v2"
    /\ pc[c] = "close_4000"
    /\ IF transport[c] = "open"
       THEN /\ close_code' = [close_code EXCEPT ![c] = {CLOSE_INTERNAL_ERROR}]
            /\ transport' = [transport EXCEPT ![c] = "closed"]
       ELSE UNCHANGED <<close_code, transport>>
    /\ pc' = [pc EXCEPT ![c] = "closed"]
    /\ UNCHANGED <<procVars, user_id, target_se, data, sentences, idx, detail,
                   inbox, client_sent, obsVars>>

(***************************************************************************)
(* server.py, websocket_tts, lines 453-471: accept, then the two           *)
(* rejections or the request loop.  The user is enrolled when user_latents *)
(* holds an entry for it.                                                  *)
(***************************************************************************)
xtts_websocket_tts_accept(c) ==
    /\ revision = "xtts"
    /\ pc[c] = "connecting"
    /\ \E u \in Users :
         /\ user_id' = [user_id EXCEPT ![c] = u]
         /\ pc' = [pc EXCEPT ![c] =
                     IF u \notin user_latents THEN "reject_4001"
                     ELSE IF model_not_loaded(tts_model) THEN "reject_4002"
                     ELSE "ready"]
    /\ transport' = [transport EXCEPT ![c] = "open"]
    /\ UNCHANGED <<procVars, target_se, data, sentences, idx, detail,
                   close_code, inbox, client_sent, obsVars>>

\* server.py, lines 458-463 and 466-471: send the error message, close with
\* the code, return; these lines are outside the try block.
xtts_websocket_tts_reject(c) ==
    /\ revision = "xtts"
    /\ pc[c] \in {"reject_4001", "reject_4002"}
    /\ IF transport[c] = "open"
       THEN /\ out' = [out EXCEPT ![c] = Append(@,
                        ErrorMsg(IF pc[c] = "reject_4001" THEN "User not enrolled"
                                 ELSE "Model not loaded"))]
            /\ close_code' = [close_code EXCEPT ![c] =
                        IF pc[c] = "reject_4001" THEN {CLOSE_NOT_ENROLLED}
                        ELSE {CLOSE_MODEL_NOT_LOADED}]
            /\ transport' = [transport EXCEPT ![c] = "closed"]
            /\ UNCHANGED write_failed
       ELSE /\ write_failed' = [write_failed EXCEPT ![c] = TRUE]
            /\ UNCHANGED <<out, close_code, transport>>
    /\ pc' = [pc EXCEPT ![c] = "closed"]
    /\ UNCHANGED <<procVars, user_id, target_se, data, sentences, idx, detail,
                   inbox, client_sent, req_no, results, engine_calls>>

(***************************************************************************)
(* server.py, websocket_tts, lines 476-515, from the message receive_json  *)
(* returns to the next suspension point.  The result names the next pc and *)
(* the error text to send.  There is no check of the language; the latents *)
(* of the user are read inside the inner try block, and inference_stream   *)
(* returns a generator, which runs when the loop asks for a chunk.         *)
(***************************************************************************)
xtts_handle_message(c, m) ==
    LET text == message_text(m) IN
    IF m.kind # "object"
    \* receive_json raises JSONDecodeError, or data.get raises
    \* AttributeError: caught at line 545
    THEN [pc |-> on_handler_exception("Exception"), detail |-> None]
    ELSE IF falsy(text)
    THEN [pc |-> "send_error", detail |-> "Empty text"]
    ELSE IF text.ty # "str"
    \* line 492: text[:50] raises TypeError, caught at line 545
    THEN [pc |-> on_handler_exception("Exception"), detail |-> None]
    ELSE IF user_id[c] \notin user_latents
    \* line 497: KeyError, caught at line 539
    THEN [pc |-> "send_error", detail |-> "TTS error"]
    ELSE [pc |-> "chunk", detail |-> None]

xtts_websocket_tts_receive(c) ==
    /\ revision = "xtts"
    /\ pc[c] = "ready"
    /\ \/ \* the client has left and nothing is buffered: WebSocketDisconnect (line 543)
          /\ inbox[c] = <<>>
          /\ transport[c] = "gone"
          /\ pc' = [pc EXCEPT ![c] = "closed"]
          /\ UNCHANGED <<procVars, user_id, target_se, data, sentences, idx, detail,
                         wireVars, obsVars>>
       \/ /\ inbox[c] # <<>>
          /\ LET h == xtts_handle_message(c, Head(inbox[c])) IN
               /\ pc' = [pc EXCEPT ![c] = h.pc]
               /\ detail' = [detail EXCEPT ![c] = h.detail]
               /\ results' = [results EXCEPT ![c] = <<>>]
          /\ idx' = [idx EXCEPT ![c] = 1]
          /\ engine_calls' = [engine_calls EXCEPT ![c] = 0]
          /\ data' = [data EXCEPT ![c] = Head(inbox[c])]
          /\ inbox' = [inbox EXCEPT ![c] = Tail(@)]
          /\ req_no' = [req_no EXCEPT ![c] = @ + 1]
          /\ out' = [out EXCEPT ![c] = <<>>]
          /\ write_failed' = [write_failed EXCEPT ![c] = FALSE]
          /\ UNCHANGED <<procVars, user_id, target_se, sentences, transport,
                         close_code, client_sent>>

(***************************************************************************)
(* server.py, lines 520-534: the loop asks the generator for the next      *)
(* chunk (an engine call).  The generator is exhausted (the completion     *)
(* message follows), raises (caught at line 539: an error message          *)
(* follows), yields None (skipped) or yields a chunk, which is filtered    *)
(* and is about to be sent.                                                *)
(***************************************************************************)
xtts_inference_chunk(c) ==
    /\ revision = "xtts"
    /\ pc[c] = "chunk"
    /\ engine_calls' = [engine_calls EXCEPT ![c] = @ + 1]
    /\ \E o \in (IF idx[c] > MaxChunks THEN {"exhausted"}
                  ELSE ChunkOutcomes \cup {"exhausted"}) :
         /\ results' = [results EXCEPT ![c] = Append(@, o)]
         /\ IF o = "exhausted"
            THEN /\ pc' = [pc EXCEPT ![c] = "send_complete"]
                 /\ UNCHANGED <<idx, detail>>
            ELSE IF o = "raise"
            THEN /\ pc' = [pc EXCEPT ![c] = "send_error"]
                 /\ detail' = [detail EXCEPT ![c] = "TTS error"]
                 /\ UNCHANGED idx
            ELSE IF o = "none"
            THEN /\ idx' = [idx EXCEPT ![c] = @ + 1]
                 /\ UNCHANGED <<pc, detail>>
            ELSE /\ pc' = [pc EXCEPT ![c] = "send_bytes"]
                 /\ UNCHANGED <<idx, detail>>
    /\ UNCHANGED <<procVars, user_id, target_se, data, sentences,
                   wireVars, out, req_no, write_failed>>

\* server.py, line 534: await websocket.send_bytes.  A send on a transport
\* the client has left raises; the exception is caught at line 539, which
\* ends the request with an error message.
xtts_send_bytes(c) ==
    /\ revision = "xtts"
    /\ pc[c] = "send_bytes"
    /\ IF transport[c] = "open"
       THEN /\ out' = [out EXCEPT ![c] = Append(@, Frame(idx[c]))]
            /\ idx' = [idx EXCEPT ![c] = @ + 1]
            /\ pc' = [pc EXCEPT ![c] = "chunk"]
            /\ UNCHANGED <<write_failed, detail>>
       ELSE /\ write_failed' = [write_failed EXCEPT ![c] = TRUE]
            /\ pc' = [pc EXCEPT ![c] = "send_error"]
            /\ detail' = [detail EXCEPT ![c] = "TTS error"]
            /\ UNCHANGED <<out, idx>>
    /\ UNCHANGED <<procVars, user_id, target_se, data, sentences,
                   wireVars, req_no, results, engine_calls>>

\* server.py, line 537: the completion message, then back to receive_json.
\* When the send raises, the exception is caught at line 539.
xtts_send_complete(c) ==
    /\ revision = "xtts"
    /\ pc[c] = "send_complete"
    /\ IF transport[c] = "open"
       THEN /\ out' = [out EXCEPT ![c] = Append(@, StatusComplete)]
            /\ pc' = [pc EXCEPT ![c] = "ready"]
            /\ UNCHANGED <<write_failed, detail>>
       ELSE /\ write_failed' = [write_failed EXCEPT ![c] = TRUE]
            /\ pc' = [pc EXCEPT ![c] = "send_error"]
            /\ detail' = [detail EXCEPT ![c] = "TTS error"]
            /\ UNCHANGED out
    /\ UNCHANGED <<procVars, user_id, target_se, data, sentences, idx,
                   wireVars, req_no, results, engine_calls>>

\* server.py, lines 486 and 541: an inline error message, then back to
\* receive_json.  When the send raises, the exception is a
\* WebSocketDisconnect (line 543: the handler returns) or another exception
\* (line 545: close with 4000), as the framework decides.
xtts_send_error(c) ==
    /\ revision = "xtts"
    /\ pc[c] = "send_error"
    /\ IF transport[c] = "open"
       THEN /\ out' = [out EXCEPT ![c] = Append(@, ErrorMsg(detail[c]))]
            /\ pc' = [pc EXCEPT ![c] = after_inline_error(detail[c])]
            /\ UNCHANGED write_failed
       ELSE /\ write_failed' = [write_failed EXCEPT ![c] = TRUE]
            /\ \E exc \in {"WebSocketDisconnect", "Exception"} :
                 pc' = [pc EXCEPT ![c] = on_handler_exception(exc)]
            /\ UNCHANGED out
    /\ UNCHANGED <<procVars, user_id, target_se, data, sentences, idx, detail,
                   wireVars, req_no, results, engine_calls>>

\* server.py, lines 545-547: close with code 4000; the handler ends.
xtts_close_4000(c) ==
    /\ revision = "xtts"
    /\ pc[c] = "close_4000"
    /\ IF transport[c] = "open"
       THEN /\ close_code' = [close_code EXCEPT ![c] = {CLOSE_INTERNAL_ERROR}]
            /\ transport' = [transport EXCEPT ![c] = "closed"]
       ELSE UNCHANGED <<close_code, transport>>
    /\ pc' = [pc EXCEPT ![c] = "closed"]
    /\ UNCHANGED <<procVars, user_id, target_se, data, sentences, idx, detail,
                   inbox, client_sent, obsVars>>

(***************************************************************************)
(* The client of a connection: it sends a request message (the transport   *)
(* buffers it until the handler reads it), or it leaves.                   *)
(***************************************************************************)
client_send(c) ==
    /\ transport[c] = "open"
    /\ client_sent[c] < MaxRequests
    /\ Len(inbox[c]) < MaxInbox
    /\ \E m \in Messages : inbox' = [inbox EXCEPT ![c] = Append(@, m)]
    /\ client_sent' = [client_sent EXCEPT ![c] = @ + 1]
    /\ UNCHANGED <<procVars, sessVars, transport, close_code, obsVars>>

client_disconnect(c) ==
    /\ transport[c] = "open"
    /\ transport' = [transport EXCEPT ![c] = "gone"]
    /\ UNCHANGED <<procVars, sessVars, close_code, inbox, client_sent, obsVars>>

\* One step of the handler of connection c in server.py.
xtts_handler(c) ==
    \/ xtts_websocket_tts_accept(c)
    \/ xtts_websocket_tts_reject(c)
    \/ xtts_websocket_tts_receive(c)
    \/ xtts_inference_chunk(c)
    \/ xtts_send_bytes(c)
    \/ xtts_send_complete(c)
    \/ xtts_send_error(c)
    \/ xtts_close_4000(c)

\* One step of the handler of connection c in server_openvoice_v2.py.
handler(c) ==
    \/ websocket_tts_accept(c)
    \/ websocket_tts_reject(c)
    \/ websocket_tts_receive(c)
    \/ synthesize_sentence(c)
    \/ synthesize_send_bytes(c)
    \/ synthesize_send_complete(c)
    \/ websocket_tts_send_error(c)
    \/ websocket_tts_close_4000(c)

Next ==
    \E c \in Conns :
        \/ handler(c)
        \/ xtts_handler(c)
        \/ client_send(c)
        \/ client_disconnect(c)

Spec == Init /\ [][Next]_vars

\* The event loop resumes a handler whose awaited operation has completed,
\* and every engine call and transport write terminates: each step of a
\* request that has been received is eventually taken.  Nothing is assumed
\* about the client, so receive_json may wait forever.
FairSpec ==
    /\ Spec
    /\ \A c \in Conns :
        /\ WF_vars(websocket_tts_reject(c))
        /\ WF_vars(synthesize_sentence(c))
        /\ WF_vars(synthesize_send_bytes(c))
        /\ WF_vars(synthesize_send_complete(c))
        /\ WF_vars(websocket_tts_send_error(c))
        /\ WF_vars(websocket_tts_close_4000(c))
        /\ WF_vars(xtts_websocket_tts_reject(c))
        /\ WF_vars(xtts_inference_chunk(c))
        /\ WF_vars(xtts_send_bytes(c))
        /\ WF_vars(xtts_send_complete(c))
        /\ WF_vars(xtts_send_error(c))
        /\ WF_vars(xtts_close_4000(c))


(***************************************************************************)
(* AudioProcessor.enhance_with_deepfilter in both revisions.  An audio     *)
(* buffer is its sample rate, its number of samples and whether the        *)
(* noise-suppression engine produced it.  librosa.resample raises for a    *)
(* buffer with no samples (no output sample can be produced) and returns   *)
(* ceil(n * target_sr / orig_sr) samples otherwise.                        *)
(***************************************************************************)
Rates == {16000, 24000, 44100, 48000}
Audios == [rate : Rates, samples : 0..MaxSamples, enhanced : {FALSE}]

\* The noise-suppression engine: the package is missing
\* (DEEPFILTERNET_AVAILABLE is False), df_init_df failed in lifespan
\* (df_model is None), or the model is loaded.
DfStates == {"unavailable", "not_loaded", "loaded"}
\* df_enhance returns or raises.
DfOutcomes == {"ok", "raise"}

Returned(a) == [status |-> "returned", audio |-> a]
Raised(a) == [status |-> "raised", audio |-> a]

resample_audio(audio, orig_sr, target_sr) ==
    IF orig_sr = target_sr THEN Returned(audio)
    ELSE IF audio.samples = 0 THEN Raised(audio)
    ELSE Returned([audio EXCEPT
            !.rate = target_sr,
            !.samples = (audio.samples * target_sr + orig_sr - 1) \div orig_sr])

\* df_enhance(df_model, df_state, audio_48k)
df_enhance(audio_48k, outcome) ==
    IF outcome = "raise" THEN Raised(audio_48k)
    ELSE Returned([audio_48k EXCEPT !.enhanced = TRUE])

\* server_openvoice_v2.py: everything after the availability test is inside
\* the try block, and the except clause returns the input buffer.
enhance_with_deepfilter(audio, sample_rate, df, outcome) ==
    IF df # "loaded" THEN Returned(audio)
    ELSE LET up == resample_audio(audio, sample_rate, SAMPLE_RATE_DF) IN
         IF up.status = "raised" THEN Returned(audio)
         ELSE LET en == df_enhance(up.audio, outcome) IN
              IF en.status = "raised" THEN Returned(audio)
              ELSE Returned(en.audio)

\* server.py, lines 172-179: the except clause resamples the input buffer to
\* the XTTS rate, outside any try block.
xtts_enhance_fallback(audio, sample_rate) ==
    IF sample_rate # SAMPLE_RATE_XTTS
    THEN resample_audio(audio, sample_rate, SAMPLE_RATE_XTTS)
    ELSE Returned(audio)

\* server.py: upsample, enhance and downsample inside the try block; the
\* except clause is xtts_enhance_fallback.
xtts_enhance_with_deepfilter(audio, sample_rate, df, outcome) ==
    IF df # "loaded" THEN Returned(audio)
    ELSE LET up == resample_audio(audio, sample_rate, SAMPLE_RATE_DF) IN
         IF up.status = "raised" THEN xtts_enhance_fallback(audio, sample_rate)
         ELSE LET en == df_enhance(up.audio, outcome) IN
              IF en.status = "raised"
              THEN xtts_enhance_fallback(audio, sample_rate)
              ELSE LET down == resample_audio(en.audio, SAMPLE_RATE_DF,
                                              SAMPLE_RATE_XTTS) IN
                   IF down.status = "raised"
                   THEN xtts_enhance_fallback(audio, sample_rate)
                   ELSE down

\* One call of enhance_with_deepfilter(audio, sample_rate) with the buffer
\* and rate load_audio returned; enh records the call and its result, who
\* made it (by), and the enhanced_applied flag of an enrollment.
enhance_call ==
    /\ revision = "openvoice_v2"
    /\ \E audio \in Audios, df \in DfStates, outcome \in DfOutcomes :
         enh' = [audio |-> audio, df |-> df,
                 engine |-> IF df = "loaded" THEN outcome ELSE "unused",
                 out |-> enhance_with_deepfilter(audio, audio.rate, df, outcome),
                 flag |-> FALSE, by |-> "enhance"]
    /\ UNCHANGED <<revision, loopVars, xttsVars, call, epoch, user_embeddings_cache,
                   local_files, s3_objects, s3_manager, tone_color_converter,
                   melo_models, source_embeddings, sessVars, wireVars, obsVars>>

xtts_enhance_call ==
    /\ revision = "xtts"
    /\ \E audio \in Audios, df \in DfStates, outcome \in DfOutcomes :
         enh' = [audio |-> audio, df |-> df,
                 engine |-> IF df = "loaded" THEN outcome ELSE "unused",
                 out |-> xtts_enhance_with_deepfilter(audio, audio.rate, df,
                                                      outcome),
                 flag |-> FALSE, by |-> "enhance"]
    /\ UNCHANGED <<revision, loopVars, xttsVars, call, epoch, user_embeddings_cache,
                   local_files, s3_objects, s3_manager, tone_color_converter,
                   melo_models, source_embeddings, sessVars, wireVars, obsVars>>


(***************************************************************************)
(* The signature store and the HTTP endpoints that put into it and delete  *)
(* from it.  The S3 object of user u has the key u                         *)
(* (voice-embeddings/{user_id}.pth, upload_embedding line 180).            *)
(***************************************************************************)
\* The user the endpoints are called for (the tiers are keyed by user_id and
\* no call reads the entry of another user), and the s3_key a client can
\* supply for user u: none, or the key its enrollment returned.
StoreUsers == {"u1"}
KeysOf(u) == {None, u}

\* Where an enrollment of decodable audio can raise: nowhere,
\* se_extractor.get_se (447), torch.save (460), and s3_client.upload_file
\* (186).
EnrollFaults == {"none", "extract", "save", "upload"}

\* The signature field of a call whose audio URL could not be fetched.
Unfetched == "<unfetched>"

\* The recording the store-level enrollments upload.
StoreAudio == [rate |-> SAMPLE_RATE_XTTS, samples |-> 1, enhanced |-> FALSE]

\* S3EmbeddingManager.upload_embedding has try/finally and no except: when
\* upload_file raises, the exception leaves the method.
upload_embedding(u, se, objects, up_ok) ==
    IF up_ok
    THEN [objects |-> [objects EXCEPT ![u] = se], s3_key |-> u, raised |-> FALSE]
    ELSE [objects |-> objects, s3_key |-> None, raised |-> TRUE]

\* Variant of enroll_user that keeps the signature in memory only.
enroll_user_memory_only(u, se, fault) ==
    [cache |-> IF fault = "extract" THEN user_embeddings_cache
               ELSE [user_embeddings_cache EXCEPT ![u] = se],
     local |-> local_files, objects |-> s3_objects, s3_key |-> None,
     raised |-> fault \in {"extract", "save"}]

\* Variant of enroll_user that writes the remote object only.
enroll_user_remote_only(u, se, fault) ==
    IF s3_manager /\ fault = "none"
    THEN [cache |-> user_embeddings_cache, local |-> local_files,
          objects |-> [s3_objects EXCEPT ![u] = se], s3_key |-> u,
          raised |-> FALSE]
    ELSE [cache |-> user_embeddings_cache, local |-> local_files,
          objects |-> s3_objects, s3_key |-> None, raised |-> fault # "none"]

\* SpeakerEmbeddingManager.enroll_user: extract, cache in memory, save
\* locally, upload when S3 is enabled.  Each step can raise, and what was
\* written before it stays written.
enroll_user(u, se, fault) ==
    IF fault = "extract"
    THEN [cache |-> user_embeddings_cache, local |-> local_files,
          objects |-> s3_objects, s3_key |-> None, raised |-> TRUE]
    ELSE IF fault = "save"
    THEN [cache |-> [user_embeddings_cache EXCEPT ![u] = se],
          local |-> local_files,
          objects |-> s3_objects, s3_key |-> None, raised |-> TRUE]
    ELSE IF s3_manager
    THEN LET up == upload_embedding(u, se, s3_objects, fault # "upload") IN
         [cache |-> [user_embeddings_cache EXCEPT ![u] = se],
          local |-> [local_files EXCEPT ![u] = se],
          objects |-> up.objects, s3_key |-> up.s3_key, raised |-> up.raised]
    ELSE [cache |-> [user_embeddings_cache EXCEPT ![u] = se],
          local |-> [local_files EXCEPT ![u] = se],
          objects |-> s3_objects, s3_key |-> None, raised |-> FALSE]

\* enroll_voice and enroll_voice_from_url, lines 675-681 and 746-752: the
\* decoded audio goes through enhance_with_deepfilter when df_model is not
\* None, and enhanced_applied is set once that call has returned.
enroll_enhance(audio, df, outcome) ==
    IF df = "loaded"
    THEN [out |-> enhance_with_deepfilter(audio, audio.rate, df, outcome),
          flag |-> TRUE]
    ELSE [out |-> Returned(audio), flag |-> FALSE]

\* POST /enroll/{user_id} (via = "upload") and POST /enroll-url/{user_id}
\* (via = "url") for an input that decodes to audio with signature se, or
\* that is not decodable (se = None): 503 without the conversion engine; a
\* failed download of the URL is a 400; otherwise the input is decoded,
\* enhanced and handed to enroll_user, and any exception becomes a 500.
enroll_voice_request(u, via, audio, df, outcome) ==
    /\ revision = "openvoice_v2"
    /\ \E se \in Sigs \cup {None}, fault \in EnrollFaults, fetched \in BOOLEAN :
         /\ via = "upload" => fetched
         /\ LET op == IF via = "upload" THEN "enroll" ELSE "enroll_url" IN
            IF model_not_loaded(tone_color_converter)
            THEN /\ call' = Answer(op, u, None, se, "503", None, "no")
                 /\ UNCHANGED <<user_embeddings_cache, local_files, s3_objects,
                                enh>>
            ELSE IF ~fetched
            THEN /\ call' = Answer(op, u, None, Unfetched, "400", None, "no")
                 /\ UNCHANGED <<user_embeddings_cache, local_files, s3_objects,
                                enh>>
            ELSE IF se = None
            THEN /\ call' = Answer(op, u, None, se, "500", None, "no")
                 /\ UNCHANGED <<user_embeddings_cache, local_files, s3_objects,
                                enh>>
            ELSE LET e == enroll_enhance(audio, df, outcome)
                     r == enroll_user(u, se, fault) IN
                 /\ enh' = IF df = "loaded"
                            THEN [audio |-> audio, df |-> df, engine |-> outcome,
                                  out |-> e.out, flag |-> e.flag,
                                  by |-> "enroll"]
                            ELSE enh
                 /\ user_embeddings_cache' = r.cache
                 /\ local_files' = r.local
                 /\ s3_objects' = r.objects
                 /\ call' = Answer(op, u, r.s3_key, se,
                                   IF r.raised THEN "500" ELSE "200", None,
                                   IF ~s3_manager \/ fault \in {"extract", "save"}
                                   THEN "no"
                                   ELSE IF fault = "upload" THEN "failed"
                                   ELSE "asked")
    /\ UNCHANGED <<revision, loopVars, xttsVars, epoch, s3_manager, tone_color_converter,
                   melo_models, source_embeddings, sessVars, wireVars, obsVars>>

\* POST /enroll/{user_id} as the store sees it: the enhancement stage has no
\* part in what is stored, so one recording and no DeepFilterNet stand for
\* every upload that decodes to audio.
enroll_voice(u) ==
    /\ enroll_voice_request(u, "upload", StoreAudio, "not_loaded", "ok")
    /\ call'.sig # None

\* A call of SpeakerEmbeddingManager.get_embedding(user_id, s3_key), as
\* tts_to_file makes it with the s3_key of the request body.
get_embedding_request(u, k) ==
    /\ revision = "openvoice_v2"
    /\ \E dl_ok \in BOOLEAN :
         LET r == get_embedding(u, k, dl_ok) IN
         /\ user_embeddings_cache' = r.cache
         /\ local_files' = r.local
         /\ call' = Answer("get", u, k, None,
                           IF r.se = None THEN "404" ELSE "200", r.se,
                           IF ~r.remote THEN "no"
                           ELSE IF dl_ok THEN "asked" ELSE "failed")
    /\ UNCHANGED <<revision, loopVars, xttsVars, epoch, enh, s3_objects, s3_manager,
                   tone_color_converter, melo_models, source_embeddings,
                   sessVars, wireVars, obsVars>>

\* The call with one of the keys the client holds for the user.
get_embedding_call(u) == \E k \in KeysOf(u) : get_embedding_request(u, k)

\* S3EmbeddingManager.delete_embedding: a failure is caught and reported as
\* False.
delete_embedding(k, objects, del_ok) ==
    IF del_ok THEN [objects EXCEPT ![k] = None] ELSE objects

\* SpeakerEmbeddingManager.delete_user: the memory entry and the local file
\* go; the remote object is deleted only when an s3_key is given and S3 is
\* enabled, and the result of delete_embedding is not looked at.
delete_user(u, s3_key, del_ok) ==
    [cache |-> [user_embeddings_cache EXCEPT ![u] = None],
     local |-> [local_files EXCEPT ![u] = None],
     objects |-> IF s3_key # None /\ s3_manager
                 THEN delete_embedding(s3_key, s3_objects, del_ok)
                 ELSE s3_objects]

\* DELETE /enroll/{user_id}?s3_key=k: 404 when the user is neither in memory
\* nor on the local disk; otherwise delete_user and a success response.  The
\* key is a query parameter that is passed on as it comes.
delete_enrollment_request(u, k) ==
    /\ revision = "openvoice_v2"
    /\ \E del_ok \in BOOLEAN :
         IF user_embeddings_cache[u] = None /\ local_files[u] = None
         THEN /\ call' = Answer("delete", u, k, None, "404", None, "no")
              /\ UNCHANGED <<user_embeddings_cache, local_files, s3_objects>>
         ELSE LET r == delete_user(u, k, del_ok) IN
              /\ user_embeddings_cache' = r.cache
              /\ local_files' = r.local
              /\ s3_objects' = r.objects
              /\ call' = Answer("delete", u, k, None, "200", None,
                                IF k = None \/ ~s3_manager THEN "no"
                                ELSE IF del_ok THEN "asked" ELSE "failed")
    /\ UNCHANGED <<revision, loopVars, xttsVars, epoch, enh, s3_manager, tone_color_converter,
                   melo_models, source_embeddings, sessVars, wireVars, obsVars>>

\* The call with one of the keys the client holds for the user.
delete_enrollment(u) == \E k \in KeysOf(u) : delete_enrollment_request(u, k)

\* server.py enroll_voice, lines 378-394: enhance_with_deepfilter when
\* df_model is not None, with enhanced_applied set once it has returned;
\* otherwise a resample to the XTTS rate.
xtts_enroll_enhance(audio, df, outcome) ==
    IF df = "loaded"
    THEN [out |-> xtts_enhance_with_deepfilter(audio, audio.rate, df, outcome),
          flag |-> TRUE]
    ELSE [out |-> resample_audio(audio, audio.rate, SAMPLE_RATE_XTTS),
          flag |-> FALSE]

\* server.py, POST /enroll/{user_id}: 503 without the model; the latents
\* are stored by the last statement before the response, so an exception
\* (a 500) leaves the store as it was.
xtts_enroll_voice_request(u, audio, df, outcome) ==
    /\ revision = "xtts"
    /\ \E se \in Sigs \cup {None}, fault \in {"none", "extract"} :
         IF model_not_loaded(tts_model)
         THEN /\ call' = Answer("enroll", u, None, se, "503", None, "no")
              /\ UNCHANGED <<user_latents, enh>>
         ELSE IF se = None
         THEN /\ call' = Answer("enroll", u, None, se, "500", None, "no")
              /\ UNCHANGED <<user_latents, enh>>
         ELSE LET e == xtts_enroll_enhance(audio, df, outcome) IN
              /\ enh' = IF df = "loaded"
                         THEN [audio |-> audio, df |-> df, engine |-> outcome,
                               out |-> e.out, flag |-> e.flag, by |-> "enroll"]
                         ELSE enh
              /\ IF e.out.status = "raised" \/ fault # "none"
                 THEN /\ call' = Answer("enroll", u, None, se, "500", None, "no")
                      /\ UNCHANGED user_latents
                 ELSE /\ user_latents' = user_latents \cup {u}
                      /\ call' = Answer("enroll", u, None, se, "200", None, "no")
    /\ UNCHANGED <<revision, loopVars, tts_model, epoch, user_embeddings_cache, local_files,
                   s3_objects, s3_manager, tone_color_converter, melo_models,
                   source_embeddings, sessVars, wireVars, obsVars>>

xtts_enroll_voice(u) ==
    /\ xtts_enroll_voice_request(u, StoreAudio, "not_loaded", "ok")
    /\ call'.sig # None

\* server.py, DELETE /enroll/{user_id}: 404 when the user has no latents.
xtts_delete_enrollment(u) ==
    /\ revision = "xtts"
    /\ IF u \notin user_latents
       THEN /\ call' = Answer("delete", u, None, None, "404", None, "no")
            /\ UNCHANGED user_latents
       ELSE /\ user_latents' = user_latents \ {u}
            /\ call' = Answer("delete", u, None, None, "200", None, "no")
    /\ UNCHANGED <<revision, loopVars, tts_model, epoch, enh, user_embeddings_cache, local_files,
                   s3_objects, s3_manager, tone_color_converter, melo_models,
                   source_embeddings, sessVars, wireVars, obsVars>>

\* What a start of the process leaves in the globals: lifespan loads the
\* conversion engine and creates the S3 manager, or catches the failure of
\* S3EmbeddingManager() and leaves s3_manager None; served without the
\* lifespan start-up, both globals keep the None of their definition.
Startups ==
    { [converter |-> TRUE,  s3 |-> TRUE],
      [converter |-> TRUE,  s3 |-> FALSE],
      [converter |-> FALSE, s3 |-> FALSE] }

\* The process stops and starts again: the memory tier and every connection
\* are gone, the local directory is kept or lost with the instance's disk,
\* and the remote objects stay.
restart ==
    /\ epoch < MaxRestarts
    /\ epoch' = epoch + 1
    /\ call' = Answer("restart", None, None, None, "200", None, "no")
    /\ user_embeddings_cache' = [u \in Users |-> None]
    /\ \E keep \in BOOLEAN :
         local_files' = IF keep THEN local_files ELSE [u \in Users |-> None]
    /\ IF revision = "xtts"
       THEN /\ tts_model' \in BOOLEAN
            /\ user_latents' = {}
            /\ UNCHANGED <<s3_manager, tone_color_converter>>
       ELSE /\ \E st \in Startups :
                 /\ tone_color_converter' = st.converter
                 /\ s3_manager' = st.s3
            /\ UNCHANGED xttsVars
    /\ melo_models' = {}
    /\ source_embeddings' = {}
    /\ pc' = [c \in Conns |-> "connecting"]
    /\ user_id' = [c \in Conns |-> None]
    /\ target_se' = [c \in Conns |-> None]
    /\ transport' = [c \in Conns |-> "connecting"]
    /\ close_code' = [c \in Conns |-> {}]
    /\ UNCHANGED <<revision, loopVars, enh, s3_objects, data, sentences, idx, detail,
                   inbox, client_sent, obsVars>>

\* A fresh deployment: nothing is stored in any tier.
StoreInit ==
    /\ revision \in {"openvoice_v2", "xtts"}
    /\ IF revision = "xtts"
       THEN /\ tts_model \in BOOLEAN
            /\ tone_color_converter = FALSE
            /\ s3_manager = FALSE
       ELSE /\ tts_model = FALSE
            /\ \E st \in Startups :
                 /\ tone_color_converter = st.converter
                 /\ s3_manager = st.s3
    /\ user_latents = {}
    /\ melo_models = {}
    /\ user_embeddings_cache = [u \in Users |-> None]
    /\ local_files = [u \in Users |-> None]
    /\ s3_objects = [u \in Users |-> None]
    /\ source_embeddings = {}
    /\ pc = [c \in Conns |-> "connecting"]
    /\ user_id = [c \in Conns |-> None]
    /\ target_se = [c \in Conns |-> None]
    /\ data = [c \in Conns |-> None]
    /\ sentences = [c \in Conns |-> <<>>]
    /\ idx = [c \in Conns |-> 0]
    /\ detail = [c \in Conns |-> None]
    /\ transport = [c \in Conns |-> "connecting"]
    /\ close_code = [c \in Conns |-> {}]
    /\ inbox = [c \in Conns |-> <<>>]
    /\ out = [c \in Conns |-> <<>>]
    /\ req_no = [c \in Conns |-> 0]
    /\ results = [c \in Conns |-> <<>>]
    /\ engine_calls = [c \in Conns |-> 0]
    /\ write_failed = [c \in Conns |-> FALSE]
    /\ client_sent = [c \in Conns |-> 0]
    /\ call = NoCall
    /\ epoch = 0
    /\ enh = NoEnhance
    /\ loop = None
    /\ tasks = InitTasks
    /\ tmp_files = NoFiles

StoreNext ==
    \/ \E u \in StoreUsers :
        \/ enroll_voice(u)
        \/ get_embedding_call(u)
        \/ delete_enrollment(u)
        \/ xtts_enroll_voice(u)
        \/ xtts_delete_enrollment(u)
    \/ \E c \in Conns :
        \/ websocket_tts_accept(c)
        \/ websocket_tts_reject(c)
    \/ restart

StoreSpec == StoreInit /\ [][StoreNext]_vars

\* enhance_with_deepfilter applied to every buffer and engine state, on a
\* fresh deployment of either revision.
EnhanceNext == enhance_call \/ xtts_enhance_call

EnhanceSpec == StoreInit /\ [][EnhanceNext]_vars

\* One call of an enrollment endpoint of either revision, on every recording
\* and state of the noise-suppression engine, on a fresh deployment.
EnrollNext ==
    /\ call.op = "none"
    /\ \E u \in StoreUsers, audio \in Audios, df \in DfStates,
          outcome \in DfOutcomes :
           \/ \E via \in {"upload", "url"} :
                 enroll_voice_request(u, via, audio, df, outcome)
           \/ xtts_enroll_voice_request(u, audio, df, outcome)

EnrollSpec == StoreInit /\ [][EnrollNext]_vars


\* Variant of engine_call_owner in which an engine call is awaited in an
\* executor, so that the event loop is free while it runs.
engine_call_owner_released(t) == None

\* Who holds the event loop while task t is inside an engine call: the call
\* is an ordinary synchronous call in the coroutine, so t does.
engine_call_owner(t) == t

\* Who holds the event loop once task t has moved to position p.
owner_at(t, p) ==
    IF p \in AwaitPcs THEN None
    ELSE IF p \in EnginePcs THEN engine_call_owner(t)
    ELSE t

\* Task t can take its next step: the loop is free for a task at an await,
\* and is held by t otherwise.
can_step(t) == loop = owner_at(t, tasks[t].pc)

\* Task t moves to position p, with language l and n sentences left.
goto(t, p, l, n) ==
    /\ tasks' = [tasks EXCEPT ![t].pc = p, ![t].language = l, ![t].left = n,
                              ![t].n = IF n = 0 THEN 0 ELSE @,
                              ![t].audio = None]
    /\ loop' = owner_at(t, p)

\* Index of the sentence task t is working on (enumerate, line 349).
sentence_index(t) == tasks[t].n - tasks[t].left

\* The finally clause of the loop body, lines 382-386: both files of the
\* index are removed when they exist, whoever wrote them.
cleanup(files, i) == [files EXCEPT ![i] = NoFile]

\* Where the loop goes after a sentence: the next one, or the completion
\* message.
after_sentence(t) ==
    IF tasks[t].left = 1 THEN "await_send_complete" ELSE "synth"

\* What no step of a task on the event loop touches.
LoopFrame ==
    UNCHANGED <<revision, xttsVars, httpVars, user_embeddings_cache, local_files,
                s3_objects, s3_manager, tone_color_converter, sessVars,
                wireVars, obsVars>>

\* websocket_tts, lines 799-813 (server.py 453-471): accept and the checks
\* before the request loop.
session_accept(t) ==
    /\ LoopFrame
    /\ t \in Sessions
    /\ tasks[t].pc = "connecting"
    /\ can_step(t)
    /\ goto(t, "await_receive", tasks[t].language, 0)
    /\ UNCHANGED <<melo_models, source_embeddings, tmp_files>>

\* receive_json returns a request; the code runs on to get_melo_model
\* (synthesize_streaming, line 345), in server.py to the first chunk of
\* inference_stream (line 512).
session_receive(t) ==
    /\ LoopFrame
    /\ t \in Sessions
    /\ tasks[t].pc = "await_receive"
    /\ tasks[t].reqs < MaxRequests
    /\ can_step(t)
    /\ \E l \in LoopLanguages, n \in 1..MaxChunks :
         /\ tasks' = [tasks EXCEPT
                ![t].pc = IF revision = "xtts" THEN "synth" ELSE "melo_check",
                ![t].language = l, ![t].left = n, ![t].n = n,
                ![t].reqs = @ + 1]
         /\ loop' = owner_at(t, IF revision = "xtts" THEN "synth"
                                ELSE "melo_check")
    /\ UNCHANGED <<melo_models, source_embeddings, tmp_files>>

\* get_melo_model, line 246: the model is in melo_models, or MeloTTS(...)
\* is called.
melo_check(t) ==
    /\ LoopFrame
    /\ tasks[t].pc = "melo_check"
    /\ can_step(t)
    /\ goto(t, IF tasks[t].language \in melo_models THEN "src_check"
               ELSE "melo_loading", tasks[t].language, tasks[t].left)
    /\ UNCHANGED <<melo_models, source_embeddings, tmp_files>>

\* MeloTTS(...) returns and the model is stored (line 249), or it raises
\* and the exception reaches the except clause of websocket_tts (846).
melo_loading(t) ==
    /\ LoopFrame
    /\ tasks[t].pc = "melo_loading"
    /\ can_step(t)
    /\ \E ok \in BOOLEAN :
         IF ok
         THEN /\ melo_models' = melo_models \cup {tasks[t].language}
              /\ goto(t, "src_check", tasks[t].language, tasks[t].left)
         ELSE /\ UNCHANGED melo_models
              /\ goto(t, "await_send_error", tasks[t].language, 0)
    /\ UNCHANGED <<source_embeddings, tmp_files>>

\* get_source_embedding, line 263.
src_check(t) ==
    /\ LoopFrame
    /\ tasks[t].pc = "src_check"
    /\ can_step(t)
    /\ goto(t, IF tasks[t].language \in source_embeddings THEN "synth"
               ELSE "src_deriving", tasks[t].language, tasks[t].left)
    /\ UNCHANGED <<melo_models, source_embeddings, tmp_files>>

\* torch.load, or tts_to_file and get_se (lines 273-296), returns and the
\* signature is stored, or raises.
src_deriving(t) ==
    /\ LoopFrame
    /\ tasks[t].pc = "src_deriving"
    /\ can_step(t)
    /\ \E ok \in BOOLEAN :
         IF ok
         THEN /\ source_embeddings' = source_embeddings \cup {tasks[t].language}
              /\ goto(t, "synth", tasks[t].language, tasks[t].left)
         ELSE /\ UNCHANGED source_embeddings
              /\ goto(t, "await_send_error", tasks[t].language, 0)
    /\ UNCHANGED <<melo_models, tmp_files>>

\* melo.tts_to_file returns (line 359; in server.py the next chunk of
\* inference_stream, line 512, which is held in memory).  In
\* server_openvoice_v2.py the base audio of the sentence is in the file of
\* its index and the conversion follows; when the call raised, the finally
\* clause removes the files of the index and the loop goes on with the next
\* sentence (in server.py the error message follows).
synth(t) ==
    /\ LoopFrame
    /\ tasks[t].pc = "synth"
    /\ can_step(t)
    /\ \E ok \in BOOLEAN :
         IF revision = "xtts"
         THEN /\ UNCHANGED tmp_files
              /\ IF ok
                 THEN /\ tasks' = [tasks EXCEPT ![t].pc = "await_send_bytes",
                                       ![t].audio = [src |-> t, se |-> t]]
                      /\ loop' = owner_at(t, "await_send_bytes")
                 ELSE goto(t, "await_send_error", tasks[t].language, 0)
         ELSE IF ok
         THEN /\ tmp_files' = [tmp_files EXCEPT ![sentence_index(t)].base = t]
              /\ goto(t, "convert", tasks[t].language, tasks[t].left)
         ELSE /\ tmp_files' = cleanup(tmp_files, sentence_index(t))
              /\ goto(t, after_sentence(t), tasks[t].language, tasks[t].left - 1)
    /\ UNCHANGED <<melo_models, source_embeddings>>

\* tone_color_converter.convert returns (lines 362-368): it has read the
\* base file of the index and written the converted file, which librosa.load
\* reads (line 371) before send_bytes is awaited.  When the base file is
\* missing or the call raises, the finally clause runs and the loop goes on.
convert(t) ==
    /\ LoopFrame
    /\ tasks[t].pc = "convert"
    /\ can_step(t)
    /\ \E ok \in BOOLEAN :
         LET i == sentence_index(t)
             converted == [src |-> tmp_files[i].base, se |-> t]
         IN  IF ok /\ tmp_files[i].base # None
             THEN /\ tmp_files' = [tmp_files EXCEPT ![i].out = converted]
                  /\ tasks' = [tasks EXCEPT ![t].pc = "await_send_bytes",
                                            ![t].audio = converted]
                  /\ loop' = owner_at(t, "await_send_bytes")
             ELSE /\ tmp_files' = cleanup(tmp_files, i)
                  /\ goto(t, after_sentence(t), tasks[t].language,
                          tasks[t].left - 1)
    /\ UNCHANGED <<melo_models, source_embeddings>>

\* send_bytes returns or raises (line 374): the finally clause, then the
\* next sentence or the completion message.  server.py has no files.
session_sent_bytes(t) ==
    /\ LoopFrame
    /\ tasks[t].pc = "await_send_bytes"
    /\ can_step(t)
    /\ tmp_files' = IF revision = "xtts" THEN tmp_files
                    ELSE cleanup(tmp_files, sentence_index(t))
    /\ goto(t, after_sentence(t), tasks[t].language, tasks[t].left - 1)
    /\ UNCHANGED <<melo_models, source_embeddings>>

\* send_json of the completion or of the error returns: back to
\* receive_json.
session_sent_json(t) ==
    /\ LoopFrame
    /\ tasks[t].pc \in {"await_send_complete", "await_send_error"}
    /\ can_step(t)
    /\ goto(t, "await_receive", tasks[t].language, 0)
    /\ UNCHANGED <<melo_models, source_embeddings, tmp_files>>

\* enroll_voice: audio.read() returns (line 665; server.py 369) and the code
\* runs on into the extraction call (enroll_user, line 447, which has no
\* await; server.py get_conditioning_latents, line 405).
enroll_read(t) ==
    /\ LoopFrame
    /\ t \in Enrollments
    /\ tasks[t].pc = "await_read"
    /\ can_step(t)
    /\ goto(t, "extracting", tasks[t].language, 0)
    /\ UNCHANGED <<melo_models, source_embeddings, tmp_files>>

\* The extraction call returns or raises, and the response is sent.
extracting(t) ==
    /\ LoopFrame
    /\ tasks[t].pc = "extracting"
    /\ can_step(t)
    /\ goto(t, "responded", tasks[t].language, 0)
    /\ UNCHANGED <<melo_models, source_embeddings, tmp_files>>

\* Both revisions with their engines loaded, no language model loaded yet.
LoopInit ==
    /\ StoreInit
    /\ IF revision = "xtts" THEN tts_model ELSE tone_color_converter

LoopNext ==
    \E t \in Tasks :
        \/ session_accept(t)
        \/ session_receive(t)
        \/ melo_check(t)
        \/ melo_loading(t)
        \/ src_check(t)
        \/ src_deriving(t)
        \/ synth(t)
        \/ convert(t)
        \/ session_sent_bytes(t)
        \/ session_sent_json(t)
        \/ enroll_read(t)
        \/ extracting(t)

LoopSpec == LoopInit /\ [][LoopNext]_vars


(***************************************************************************)
(* synthesize_streaming, lines 341-343, on its own: the segmentation of    *)
(* every text of up to MaxText characters, for a CJK and for a Western     *)
(* language, and the replacement of an empty result.                       *)
(***************************************************************************)
Alphabet == {"a", "b", "sp", "dot", "cdot"}
Texts == UNION {[1..n -> Alphabet] : n \in 0..MaxText}
SplitLanguages == {"ko", "en"}

\* Line 341: sentences = TTSPipeline.split_into_sentences(text, language).
segment(c) ==
    /\ pc[c] = "segment"
    /\ sentences' = [sentences EXCEPT ![c] =
                        split_into_sentences(data[c].text.s, data[c].language)]
    /\ pc' = [pc EXCEPT ![c] = "segmented"]
    /\ UNCHANGED <<procVars, user_id, target_se, data, idx, detail, wireVars,
                   obsVars>>

\* Lines 342-343, and on to the loop over the sentences (line 349).
segment_fallback(c) ==
    /\ pc[c] = "segmented"
    /\ sentences' = [sentences EXCEPT ![c] = or_whole_text(@, data[c].text.s)]
    /\ pc' = [pc EXCEPT ![c] = "enumerate"]
    /\ UNCHANGED <<procVars, user_id, target_se, data, idx, detail, wireVars,
                   obsVars>>

\* synthesize_streaming is entered with a text and a language.
SplitInit ==
    /\ revision = "openvoice_v2"
    /\ tts_model = FALSE
    /\ tone_color_converter = TRUE
    /\ s3_manager = FALSE
    /\ user_latents = {}
    /\ melo_models = {}
    /\ user_embeddings_cache = [u \in Users |-> None]
    /\ local_files = [u \in Users |-> None]
    /\ s3_objects = [u \in Users |-> None]
    /\ source_embeddings = {}
    /\ pc = [c \in Conns |-> "segment"]
    /\ user_id = [c \in Conns |-> None]
    /\ target_se = [c \in Conns |-> None]
    /\ data \in [Conns -> {Request(TextString(t), l, None) :
                                t \in Texts, l \in SplitLanguages}]
    /\ sentences = [c \in Conns |-> <<>>]
    /\ idx = [c \in Conns |-> 0]
    /\ detail = [c \in Conns |-> None]
    /\ transport = [c \in Conns |-> "open"]
    /\ close_code = [c \in Conns |-> {}]
    /\ inbox = [c \in Conns |-> <<>>]
    /\ out = [c \in Conns |-> <<>>]
    /\ req_no = [c \in Conns |-> 0]
    /\ results = [c \in Conns |-> <<>>]
    /\ engine_calls = [c \in Conns |-> 0]
    /\ write_failed = [c \in Conns |-> FALSE]
    /\ client_sent = [c \in Conns |-> 0]
    /\ call = NoCall
    /\ epoch = 0
    /\ enh = NoEnhance
    /\ loop = None
    /\ tasks = InitTasks
    /\ tmp_files = NoFiles

SplitNext == \E c \in Conns : segment(c) \/ segment_fallback(c)

SplitSpec == SplitInit /\ [][SplitNext]_vars

(***************************************************************************)
(* A streaming session of server_openvoice_v2.py next to the enrollment    *)
(* endpoints: while the connection lives, the user is enrolled again or    *)
(* deleted (one successful call).                                          *)
(***************************************************************************)
SessionStoreInit ==
    /\ Init
    /\ revision = "openvoice_v2"
    /\ tone_color_converter

SessionStoreNext ==
    \/ \E c \in Conns :
        \/ handler(c)
        \/ client_send(c)
    \/ /\ call.op = "none"
       /\ \E u \in StoreUsers :
            \/ enroll_voice(u)
            \/ delete_enrollment(u)
       /\ call'.status = "200"

SessionStoreSpec == SessionStoreInit /\ [][SessionStoreNext]_vars

(***************************************************************************)
(* The store calls for one user, with any s3_key a client can send: none,  *)
(* the user's own, or the key of another user's object.  The deployment    *)
(* holds signatures of u1 and u2.                                          *)
(***************************************************************************)
AnyKeys == {None, "u1", "u2"}

IsolationInit ==
    /\ Init
    /\ revision = "openvoice_v2"
    /\ tone_color_converter

IsolationNext ==
    \E u \in StoreUsers :
        \/ enroll_voice(u)
        \/ \E k \in AnyKeys : get_embedding_request(u, k)
        \/ \E k \in AnyKeys : delete_enrollment_request(u, k)

IsolationSpec == IsolationInit /\ [][IsolationNext]_vars

(***************************************************************************)
(* Two calls of the enrollment endpoints of server_openvoice_v2.py for the *)
(* same user on the event loop: r1 is an enrollment, r2 an enrollment or a *)
(* deletion.  enroll_voice awaits audio.read() (line 665) and then runs to *)
(* its response without another suspension (enroll_user, awaited at line   *)
(* 690, has no await inside); delete_enrollment has no await at all.  Each *)
(* write of a tier is a step of its own, taken while the task holds the    *)
(* loop.                                                                   *)
(***************************************************************************)
Racers == {"r1", "r2"}
RaceUser == "u1"

\* A request that waits for the loop: its upload is being read, or it has
\* not been dispatched yet.
RaceWaiting == {"await_read", "pending"}

\* The requests r2 can be, next to the enrollment r1.
RaceRequests ==
    {[op |-> "enroll", sig |-> "s2", key |-> None]}
    \cup {[op |-> "delete", sig |-> None, key |-> k] : k \in KeysOf(RaceUser)}

RaceTask(r) ==
    [pc |-> IF r.op = "enroll" THEN "await_read" ELSE "pending",
     op |-> r.op, sig |-> r.sig, key |-> r.key, status |-> None,
     failed |-> FALSE]

RaceInit ==
    /\ revision = "openvoice_v2"
    /\ tts_model = FALSE
    /\ tone_color_converter = TRUE
    /\ s3_manager = TRUE
    /\ user_latents = {}
    /\ melo_models = {}
    /\ \E se \in Sigs \cup {None} :
         /\ user_embeddings_cache \in
                {[u \in Users |-> None],
                 [u \in Users |-> IF u = RaceUser THEN se ELSE None]}
         /\ local_files = [u \in Users |-> IF u = RaceUser THEN se ELSE None]
         /\ s3_objects = [u \in Users |-> IF u = RaceUser THEN se ELSE None]
    /\ source_embeddings = {}
    /\ pc = [c \in Conns |-> "connecting"]
    /\ user_id = [c \in Conns |-> None]
    /\ target_se = [c \in Conns |-> None]
    /\ data = [c \in Conns |-> None]
    /\ sentences = [c \in Conns |-> <<>>]
    /\ idx = [c \in Conns |-> 0]
    /\ detail = [c \in Conns |-> None]
    /\ transport = [c \in Conns |-> "connecting"]
    /\ close_code = [c \in Conns |-> {}]
    /\ inbox = [c \in Conns |-> <<>>]
    /\ out = [c \in Conns |-> <<>>]
    /\ req_no = [c \in Conns |-> 0]
    /\ results = [c \in Conns |-> <<>>]
    /\ engine_calls = [c \in Conns |-> 0]
    /\ write_failed = [c \in Conns |-> FALSE]
    /\ client_sent = [c \in Conns |-> 0]
    /\ call = NoCall
    /\ epoch = 0
    /\ enh = NoEnhance
    /\ loop = None
    /\ \E r \in RaceRequests :
         tasks = [t \in Racers |->
                    IF t = "r1"
                    THEN RaceTask([op |-> "enroll", sig |-> "s1", key |-> None])
                    ELSE RaceTask(r)]
    /\ tmp_files = NoFiles

\* What a step of a racing request leaves alone.
RaceFrame ==
    UNCHANGED <<revision, xttsVars, httpVars, s3_manager, tone_color_converter,
                melo_models, source_embeddings, tmp_files, sessVars, wireVars,
                obsVars>>

\* Task t goes on to position p; it gives the loop back when it responds.
race_goto(t, p, status, failed) ==
    /\ tasks' = [tasks EXCEPT ![t].pc = p, ![t].status = status,
                              ![t].failed = failed]
    /\ loop' = IF p = "responded" THEN None ELSE t

\* The loop resumes enroll_voice after audio.read() (line 665), or
\* dispatches delete_enrollment, whose first statement is the 404 check
\* (lines 860-864).
race_resume(t) ==
    /\ RaceFrame
    /\ tasks[t].pc \in RaceWaiting
    /\ loop = None
    /\ IF tasks[t].op = "enroll"
       THEN race_goto(t, "cache_write", None, FALSE)
       ELSE IF /\ user_embeddings_cache[RaceUser] = None
               /\ local_files[RaceUser] = None
       THEN race_goto(t, "responded", "404", FALSE)
       ELSE race_goto(t, "cache_pop", None, FALSE)
    /\ UNCHANGED <<user_embeddings_cache, local_files, s3_objects>>

\* enroll_user, line 456, 460 and 466, one write after the other;
\* torch.save or upload_file can raise (a 500, lines 704-706).
race_enroll_user(t) ==
    /\ RaceFrame
    /\ loop = t
    /\ tasks[t].op = "enroll"
    /\ \/ /\ tasks[t].pc = "cache_write"
          /\ user_embeddings_cache' =
                 [user_embeddings_cache EXCEPT ![RaceUser] = tasks[t].sig]
          /\ race_goto(t, "local_write", None, FALSE)
          /\ UNCHANGED <<local_files, s3_objects>>
       \/ /\ tasks[t].pc = "local_write"
          /\ \E ok \in BOOLEAN :
               IF ok
               THEN /\ local_files' = [local_files EXCEPT ![RaceUser] = tasks[t].sig]
                    /\ race_goto(t, "remote_write", None, FALSE)
               ELSE /\ UNCHANGED local_files
                    /\ race_goto(t, "responded", "500", TRUE)
          /\ UNCHANGED <<user_embeddings_cache, s3_objects>>
       \/ /\ tasks[t].pc = "remote_write"
          /\ \E ok \in BOOLEAN :
               LET up == upload_embedding(RaceUser, tasks[t].sig, s3_objects, ok) IN
               /\ s3_objects' = up.objects
               /\ race_goto(t, "responded", IF up.raised THEN "500" ELSE "200",
                            up.raised)
          /\ UNCHANGED <<user_embeddings_cache, local_files>>

\* delete_user, lines 506, 509-511 and 514-516, one removal after the other;
\* a failure of delete_object is caught in delete_embedding and the result
\* is not looked at.
race_delete_user(t) ==
    /\ RaceFrame
    /\ loop = t
    /\ tasks[t].op = "delete"
    /\ \/ /\ tasks[t].pc = "cache_pop"
          /\ user_embeddings_cache' =
                 [user_embeddings_cache EXCEPT ![RaceUser] = None]
          /\ race_goto(t, "local_unlink", None, FALSE)
          /\ UNCHANGED <<local_files, s3_objects>>
       \/ /\ tasks[t].pc = "local_unlink"
          /\ local_files' = [local_files EXCEPT ![RaceUser] = None]
          /\ race_goto(t, "remote_delete", None, FALSE)
          /\ UNCHANGED <<user_embeddings_cache, s3_objects>>
       \/ /\ tasks[t].pc = "remote_delete"
          /\ \E del_ok \in BOOLEAN :
               /\ s3_objects' = IF tasks[t].key # None /\ s3_manager
                                THEN delete_embedding(tasks[t].key, s3_objects, del_ok)
                                ELSE s3_objects
               /\ race_goto(t, "responded", "200",
                            tasks[t].key # None /\ s3_manager /\ ~del_ok)
          /\ UNCHANGED <<user_embeddings_cache, local_files>>

RaceNext ==
    \E t \in Racers :
        \/ race_resume(t)
        \/ race_enroll_user(t)
        \/ race_delete_user(t)

RaceSpec == RaceInit /\ [][RaceNext]_vars

(***************************************************************************)
(* Properties.                                                             *)
(***************************************************************************)
Last(q) == q[Len(q)]
FramesOf(o) == SelectSeq(o, LAMBDA m : m.type = "bytes")
FrameIdxs(o) == [k \in 1..Len(FramesOf(o)) |-> FramesOf(o)[k].idx]
CountOf(o, msg) == Len(SelectSeq(o, LAMBDA m : m = msg))
\* The sentences i < k whose engine calls succeeded according to p, in order.
OkBefore(p, k) == SelectSeq([i \in 1..Len(p) |-> i], LAMBDA i : i < k /\ p[i] = "ok")
\* The current request has been answered by a control message.
Answered(c) == out[c] # <<>> /\ Last(out[c]).type \in {"status", "error"}
\* The current request of c entered the sentence loop.
InLoop(c) == req_no[c] > 0 /\ sentences[c] # <<>>
\* The current request of c passed validation and was handed to
\* synthesize_streaming.
Handed(c) ==
    /\ req_no[c] > 0
    /\ data[c].kind = "object"
    /\ message_text(data[c]).ty = "str"
    /\ ~falsy(message_text(data[c]))
    /\ message_language(data[c]) \in LANGUAGE_CONFIG
\* No tier of the store of server_openvoice_v2.py holds a signature of u.
NoSignature(u) ==
    user_embeddings_cache[u] = None /\ local_files[u] = None /\ s3_objects[u] = None
\* The running revision has no stored signature of u.
NotStored(u) == IF revision = "xtts" THEN u \notin user_latents ELSE NoSignature(u)

\* C1: a request that entered the sentence loop is not aborted by an engine
\* failure on a sentence.  While no write has failed, the frames sent so far
\* are exactly the sentences already processed whose engine calls succeeded,
\* one frame each, and once the handler is back at receive_json (or has
\* ended there on a later disconnect) the client has received those frames
\* for all n sentences followed by {status: complete} (n frames when
\* nothing fails, none when all fail).
C1_FailedSentenceSkipped ==
    \A c \in Conns :
        (InLoop(c) /\ ~write_failed[c]) =>
            /\ pc[c] \in {"sentence", "send_bytes", "send_complete", "ready", "closed"}
            /\ pc[c] \notin {"ready", "closed"} =>
                 out[c] = [k \in 1..Len(OkBefore(results[c], idx[c])) |->
                             Frame(OkBefore(results[c], idx[c])[k])]
            /\ pc[c] \in {"ready", "closed"} =>
                 /\ Len(results[c]) = Len(sentences[c])
                 /\ out[c] = [k \in 1..Len(OkBefore(results[c], Len(results[c]) + 1)) |->
                                Frame(OkBefore(results[c], Len(results[c]) + 1)[k])]
                             \o <<StatusComplete>>

\* C1 witness: a 3-sentence request whose second sentence failed was answered
\* by the frames of sentences 1 and 3 and the completion message.
C1_Witness ==
    \E c \in Conns :
        /\ pc[c] = "ready"
        /\ Len(sentences[c]) = 3
        /\ results[c][1] = "ok" /\ results[c][2] = "convert_fail" /\ results[c][3] = "ok"
        /\ out[c] = <<Frame(1), Frame(3), StatusComplete>>

\* C2: the frames of one request are sent in sentence order: the sentence
\* indices of the frames sent so far are strictly increasing.
C2_FramesInSentenceOrder ==
    \A c \in Conns :
        \A j, k \in 1..Len(FrameIdxs(out[c])) :
            j < k => FrameIdxs(out[c])[j] < FrameIdxs(out[c])[k]

\* C2 witness: three frames of one request have been sent.
C2_Witness ==
    \E c \in Conns : FrameIdxs(out[c]) = <<1, 2, 3>>

\* C3 as stated: every request handed to the orchestrator has, once the
\* handler is back at receive_json, been answered by exactly one completion
\* message.
C3_Original ==
    \A c \in Conns :
        (revision = "openvoice_v2" /\ Handed(c) /\ pc[c] = "ready") =>
            CountOf(out[c], StatusComplete) = 1

\* C3 amended: completion is sent at most once per request, only as the last
\* message of a request that entered the sentence loop and after every
\* sentence has been processed; a request that entered the loop and whose
\* handler is back at receive_json got exactly one completion, whether its
\* sentences succeeded or not; a request handed to the orchestrator whose
\* model load or source-signature derivation raised got one error message
\* and no completion.
C3_CompletionOnce ==
    \A c \in Conns : revision = "openvoice_v2" =>
        /\ CountOf(out[c], StatusComplete) <= 1
        /\ CountOf(out[c], StatusComplete) = 1 =>
             /\ Last(out[c]) = StatusComplete
             /\ InLoop(c)
             /\ idx[c] = Len(sentences[c]) + 1
             /\ pc[c] \in {"ready", "closed"}
        /\ (InLoop(c) /\ pc[c] = "ready") => CountOf(out[c], StatusComplete) = 1
        /\ (Handed(c) /\ ~InLoop(c) /\ pc[c] = "ready") =>
             out[c] = <<ErrorMsg("TTS error")>>

\* C3 witness: a 2-sentence request both of whose sentences failed was
\* answered by the completion message alone.
C3_Witness ==
    \E c \in Conns :
        /\ pc[c] = "ready"
        /\ Len(sentences[c]) = 2
        /\ \A i \in 1..2 : results[c][i] # "ok"
        /\ out[c] = <<StatusComplete>>

\* C4: requests of a connection are serialized.  The handler reads a request
\* message only at receive_json, and a request after the first only when
\* the current one has been answered by its completion or error message;
\* every message sent belongs to the request read last, and nothing more is
\* sent for a request after its completion or error message.
C4_RequestsSerialized ==
    [][\A c \in Conns :
          /\ req_no'[c] # req_no[c] =>
               /\ req_no'[c] = req_no[c] + 1
               /\ pc[c] = "ready"
               /\ req_no[c] > 0 => Answered(c)
               /\ out'[c] = <<>>
          /\ (out'[c] # out[c] /\ req_no'[c] = req_no[c]) =>
               /\ ~Answered(c)
               /\ pc[c] \in {"reject_4001", "reject_4002", "send_bytes",
                             "send_complete", "send_error"}]_vars

\* C4 witness: the second request message is buffered while a frame of the
\* first request is being sent.
C4_Witness ==
    \E c \in Conns : pc[c] = "send_bytes" /\ req_no[c] = 1 /\ inbox[c] # <<>>

\* C5 as stated: once a write of a request has failed because the transport
\* is closed, no later sentence of the request leads to another attempt to
\* send a frame.
C5_NoWriteAfterClosedTransport ==
    \A c \in Conns :
        (revision = "openvoice_v2" /\ write_failed[c]) => pc[c] # "send_bytes"

\* C6: a request message that has been read is eventually answered: the
\* handler does not stay in the synthesis or in a pending send, it reaches
\* receive_json with a completion or error message sent for the request, or
\* it ends with the connection closed.
C6_RequestEventuallyAnswered ==
    \A c \in Conns :
        (pc[c] \in {"sentence", "chunk", "send_bytes", "send_complete", "send_error",
                    "close_4000"})
            ~> \/ pc[c] = "ready" /\ Answered(c)
               \/ pc[c] = "closed" /\ transport[c] \in {"gone", "closed"}

\* C6 witness: a request was answered by a close of the connection.
C6_Witness ==
    \E c \in Conns : req_no[c] = 1 /\ pc[c] = "closed" /\ close_code[c] = {CLOSE_INTERNAL_ERROR}

\* C7: a connection of a user with no stored signature never reads a request
\* and never sends a frame; its handler only sends the rejection and ends,
\* and the connection is closed with code 4001 unless the client left first.
C7_NotEnrolledClosed4001 ==
    \A c \in Conns :
        (user_id[c] # None /\ NotStored(user_id[c])) =>
            /\ pc[c] \in {"reject_4001", "closed"}
            /\ req_no[c] = 0
            /\ FramesOf(out[c]) = <<>>
            /\ close_code[c] \subseteq {CLOSE_NOT_ENROLLED}
            /\ (pc[c] = "closed" /\ ~write_failed[c]) =>
                 /\ close_code[c] = {CLOSE_NOT_ENROLLED}
                 /\ transport[c] = "closed"

\* C7 witness: the connection of ghost was closed with 4001.
C7_Witness ==
    \E c \in Conns :
        user_id[c] = "ghost" /\ close_code[c] = {CLOSE_NOT_ENROLLED} /\ pc[c] = "closed"

\* C8 as stated: a connection is closed with 4001 only when no tier holds a
\* signature of the user.
C8_NotEnrolledOnlyIfNoTier ==
    \A c \in Conns :
        (revision = "openvoice_v2" /\ close_code[c] = {CLOSE_NOT_ENROLLED}) =>
            NoSignature(user_id[c])

\* A request message that is malformed or empty: not a JSON object, or its
\* text is missing, empty or not a string.
Malformed(m) ==
    \/ m.kind # "object"
    \/ m.text.ty \in {"missing", "num"}
    \/ m.text.s = <<>>

\* C9 as stated: a malformed or empty request message gets one inline error
\* message and the handler returns to receive_json; the connection is not
\* closed, no engine is called and no frame is sent for it.
C9_MalformedGetsInlineError ==
    \A c \in Conns :
        (req_no[c] > 0 /\ Malformed(data[c])) =>
            /\ close_code[c] = {}
            /\ engine_calls[c] = 0
            /\ FramesOf(out[c]) = <<>>
            /\ transport[c] = "open" => pc[c] \in {"send_error", "ready"}
            /\ pc[c] = "ready" => (Len(out[c]) = 1 /\ out[c][1].type = "error")

\* C10: a request whose language is not supported does not reach the
\* orchestrator: no engine call and no frame happen for it, the server does
\* not close the connection, and the handler sends one inline error message
\* (the unsupported-language error when the text is not empty) and is back
\* at receive_json.
C10_UnsupportedLanguageInline ==
    \A c \in Conns :
        (revision = "openvoice_v2" /\ req_no[c] > 0 /\ data[c].kind = "object"
           /\ message_language(data[c]) \notin LANGUAGE_CONFIG) =>
            LET err == ErrorMsg(IF falsy(message_text(data[c])) THEN "Empty text"
                                ELSE "Unsupported language")
            IN  /\ engine_calls[c] = 0
                /\ sentences[c] = <<>>
                /\ FramesOf(out[c]) = <<>>
                /\ close_code[c] = {}
                /\ transport[c] = "open" => pc[c] \in {"send_error", "ready"}
                /\ pc[c] = "send_error" => (detail[c] = err.text /\ out[c] = <<>>)
                /\ pc[c] = "ready" => out[c] = <<err>>

\* C10 witness: a request with a text and language fr was answered by the
\* unsupported-language error and the handler is back at receive_json with
\* the connection open.
C10_Witness ==
    \E c \in Conns :
        /\ req_no[c] > 0
        /\ data[c].kind = "object"
        /\ data[c].language = "fr"
        /\ data[c].text.s = TextTwo
        /\ pc[c] = "ready"
        /\ transport[c] = "open"
        /\ out[c] = <<ErrorMsg("Unsupported language")>>

(***************************************************************************)
(* Properties of the signature store (StoreSpec).  put is a call of the    *)
(* enrollment endpoint that answers 200, get a call of get_embedding,      *)
(* delete a call of the deletion endpoint.                                 *)
(***************************************************************************)
PutReturned(c) == c.op = "enroll" /\ c.status = "200"

\* C11: a get that follows a put of signature s at once returns s, and
\* download_embedding is not called for it, whatever s3_key it is given.
C11_GetAfterPutFromMemory ==
    (call.op = "get" /\ PutReturned(call.prev))
        => (call.se = call.prev.sig /\ call.remote = "no")

\* C11: a get with an s3_key, made at once after a put with S3 enabled, has
\* answered the signature just put.
C11_Witness ==
    /\ call.op = "get"
    /\ PutReturned(call.prev)
    /\ call.key = call.user
    /\ s3_manager
    /\ call.se = "s2"

\* C12: a get that finds the memory and the local tier empty, is given the
\* s3_key of the enrollment and gets an answer from S3 returns the remote
\* signature and writes it to the memory and the local tier; a get that
\* finds the memory tier empty and the local file present returns the local
\* signature without a call on S3.
C12_RemoteHitRepopulates ==
    [][\A u \in StoreUsers :
        get_embedding_call(u) =>
          /\ (/\ user_embeddings_cache[u] = None
              /\ local_files[u] = None
              /\ s3_objects[u] # None
              /\ call'.remote = "asked")
             => (/\ call'.se = s3_objects[u]
                 /\ user_embeddings_cache'[u] = s3_objects[u]
                 /\ local_files'[u] = s3_objects[u])
          /\ (user_embeddings_cache[u] = None /\ local_files[u] # None)
             => (/\ call'.se = local_files[u]
                 /\ call'.remote = "no"
                 /\ user_embeddings_cache'[u] = local_files[u])]_vars

\* C12: after a restart a get has been answered by the remote tier and has
\* left its signature in the memory and the local tier.
C12_Witness ==
    /\ call.op = "get"
    /\ call.prev.op = "restart"
    /\ call.remote = "asked"
    /\ call.se = "s1"
    /\ user_embeddings_cache[call.user] = "s1"
    /\ local_files[call.user] = "s1"

\* C13: an enrollment whose S3 upload raised still answers 200 and leaves
\* its signature in the memory and the local tier.
C13_RemoteWriteFailureTolerated ==
    (call.op = "enroll" /\ call.remote = "failed")
        => /\ call.status = "200"
           /\ user_embeddings_cache[call.user] = call.sig
           /\ local_files[call.user] = call.sig

\* C14: an enrollment call that ends in an error response leaves every tier
\* of the store as it found it (in server.py: leaves user_latents as it
\* found it).
C14_EnrollAllOrNothing ==
    [][\A u \in StoreUsers :
        ((enroll_voice(u) \/ xtts_enroll_voice(u)) /\ call'.status # "200")
            => UNCHANGED <<user_embeddings_cache, local_files, s3_objects,
                           user_latents>>]_vars

\* C15: a get that follows a deletion reporting success returns no
\* signature, whatever s3_key it is given.
C15_GetAfterDeleteNotFound ==
    (call.op = "get" /\ call.prev.op = "delete" /\ call.prev.status = "200")
        => call.se = None

\* C16: when the deletion call has reported success, no tier holds a
\* signature of the user.
C16_DeleteClearsEveryTier ==
    (call.op = "delete" /\ call.status = "200")
        => /\ user_embeddings_cache[call.user] = None
           /\ local_files[call.user] = None
           /\ s3_objects[call.user] = None

\* C17: the deletion call answers 404 exactly when no tier holds a signature
\* of the user (in server.py: when user_latents has no entry).
C17_Delete404IffInNoTier ==
    [][\A u \in StoreUsers :
        (delete_enrollment(u) \/ xtts_delete_enrollment(u))
            => (call'.status = "404"
                  <=> /\ user_embeddings_cache[u] = None
                      /\ local_files[u] = None
                      /\ s3_objects[u] = None
                      /\ u \notin user_latents)]_vars

\* C18: an enrollment that answers 200 has written the local file; a get
\* without an s3_key that finds the memory tier empty (as a restart leaves
\* it) and the local file present returns the signature of the file with no
\* call on S3; and a session opened for such a user with the conversion
\* engine loaded enters the request loop with that signature.
C18_EnrollmentSurvivesRestart ==
    [][/\ \A u \in StoreUsers :
            /\ (enroll_voice(u) /\ call'.status = "200")
                 => local_files'[u] = call'.sig
            /\ (/\ get_embedding_call(u)
                /\ call'.key = None
                /\ user_embeddings_cache[u] = None
                /\ local_files[u] # None)
                 => (call'.se = local_files[u] /\ call'.remote = "no")
       /\ \A c \in Conns :
            (/\ websocket_tts_accept(c)
             /\ user_embeddings_cache[user_id'[c]] = None
             /\ local_files[user_id'[c]] # None
             /\ tone_color_converter)
              => (/\ pc'[c] = "ready"
                  /\ target_se'[c] = local_files[user_id'[c]])]_vars

\* C18: on an instance that never had S3, after a restart, a get without an
\* s3_key has returned the enrolled signature and a session of the user is
\* in the request loop with it.
C18_Witness ==
    /\ call.op = "get"
    /\ call.prev.op = "restart"
    /\ call.key = None
    /\ call.se = "s2"
    /\ s3_objects[call.user] = None
    /\ \E c \in Conns :
         /\ pc[c] = "ready"
         /\ user_id[c] = call.user
         /\ target_se[c] = "s2"

\* C19: when a put has returned, no tier holds another signature for the
\* user than the one just put.
C19_PutReplacesEveryTier ==
    (revision = "openvoice_v2" /\ PutReturned(call))
        => /\ user_embeddings_cache[call.user] = call.sig
           /\ local_files[call.user] = call.sig
           /\ s3_objects[call.user] \in {None, call.sig}

(***************************************************************************)
(* Properties of enhance_with_deepfilter (EnhanceSpec).                    *)
(***************************************************************************)
\* C20: no call of enhance ends with an exception: with the engine
\* unavailable, not loaded, or raising, the call returns a buffer.
C20_EnhanceNeverRaises == enh.out.status # "raised"

\* The canonical output rate of the revision that runs.
CanonicalRate ==
    IF revision = "xtts" THEN SAMPLE_RATE_XTTS ELSE SAMPLE_RATE_OUTPUT

\* C21: the buffer a call of enhance returns is at the canonical output
\* rate, whether the engine was unavailable, was applied, or failed.
C21_EnhanceOutputRateCanonical ==
    enh.out.status = "returned" => enh.out.audio.rate = CanonicalRate

(***************************************************************************)
(* Properties of the enrollment endpoints (EnrollSpec).                    *)
(***************************************************************************)
Enrollment(c) == c.op \in {"enroll", "enroll_url"}

\* C22: an enrollment that reports enhanced = true has stored audio the
\* noise-suppression engine was applied to.
C22_EnhancedFlagOnlyWhenApplied ==
    (Enrollment(call) /\ call.status = "200" /\ enh.flag)
        => enh.out.audio.enhanced

\* C23: an enrollment call made while the extraction engine is not loaded
\* (tone_color_converter, in server.py tts_model, is None) answers 503 and
\* leaves every tier of the store as it was, on the upload and the URL
\* endpoint.
C23_EnrollWithoutModel503 ==
    [][\A u \in StoreUsers, audio \in Audios, df \in DfStates,
          outcome \in DfOutcomes :
        (\/ /\ ~tone_color_converter
            /\ \E via \in {"upload", "url"} :
                 enroll_voice_request(u, via, audio, df, outcome)
         \/ /\ ~tts_model
            /\ xtts_enroll_voice_request(u, audio, df, outcome))
          => /\ call'.status = "503"
             /\ UNCHANGED <<user_embeddings_cache, local_files, s3_objects,
                            user_latents>>]_vars

\* C23: the URL endpoint has answered 503 for a decodable recording and
\* nothing is stored.
C23_Witness ==
    /\ call.op = "enroll_url"
    /\ call.status = "503"
    /\ call.sig = "s1"
    /\ ~tone_color_converter
    /\ user_embeddings_cache[call.user] = None
    /\ local_files[call.user] = None
    /\ s3_objects[call.user] = None

\* C24: an enrollment whose input is not decodable audio, made with the
\* engine loaded, answers 400.
C24_UndecodableInput400 ==
    (Enrollment(call) /\ call.sig = None /\ call.status # "503")
        => call.status = "400"

\* Task t starts the engine call at position p in this step.
Starts(t, p) == tasks[t].pc # p /\ tasks'[t].pc = p

\* Another session than t is inside the engine call at position p for the
\* language of t.
InFlight(t, p) ==
    \E u \in Sessions \ {t} :
        tasks[u].pc = p /\ tasks[u].language = tasks[t].language

\* C25: over any interleaving of sessions, a session starts loading the
\* model of a language only when the model is not loaded and no other
\* session is loading it, and starts deriving the source signature of a
\* language only when it is not derived and no other session is deriving it.
C25_SingleFlightPerLanguage ==
    [][\A t \in Sessions :
          /\ Starts(t, "melo_loading") =>
                 /\ tasks[t].language \notin melo_models
                 /\ ~InFlight(t, "melo_loading")
          /\ Starts(t, "src_deriving") =>
                 /\ tasks[t].language \notin source_embeddings
                 /\ ~InFlight(t, "src_deriving")]_vars

\* C25 witness: both sessions are in their first request for the same
\* language, the first still streaming, the second past get_melo_model with
\* the model the first one loaded.
C25_Witness ==
    /\ tasks["c1"].pc = "await_send_bytes"
    /\ tasks["c2"].pc = "src_check"
    /\ tasks["c1"].reqs = 1 /\ tasks["c2"].reqs = 1
    /\ tasks["c1"].language = "en" /\ tasks["c2"].language = "en"
    /\ "en" \in melo_models /\ "en" \in source_embeddings

\* A task that waits at an await whose event can arrive: a connection to
\* accept, a message to receive, a message being sent, an upload to read.
Waiting(t) ==
    /\ tasks[t].pc \in AwaitPcs \ {"responded"}
    /\ tasks[t].pc = "await_receive" => tasks[t].reqs < MaxRequests

\* C26: while one task is inside an engine call, every other task that
\* waits at an await can take its step (be accepted, receive, send).
C26_EngineCallDoesNotBlockOthers ==
    \A t \in Tasks, u \in Tasks :
        (t # u /\ tasks[t].pc \in EnginePcs /\ Waiting(u)) => can_step(u)

\* The tiers of the signature store of both revisions.
storeTiers == <<user_embeddings_cache, local_files, s3_objects, user_latents>>

\* C27: a step in which a streaming connection ends (the client leaves, the
\* server closes the transport, or the handler returns), whatever the
\* session was doing, leaves every tier of the signature store unchanged.
C27_ConnectionEndKeepsStore ==
    [][\A c \in Conns :
          (\/ transport[c] = "open" /\ transport'[c] \in {"gone", "closed"}
           \/ pc[c] # "closed" /\ pc'[c] = "closed")
          => UNCHANGED storeTiers]_vars

\* C27 witness: the client of an enrolled user left in the middle of a
\* synthesis, a write failed, the handler has ended, and the user's
\* signature is still stored.
C27_Witness ==
    \E c \in Conns :
        /\ pc[c] = "closed" /\ transport[c] = "gone"
        /\ req_no[c] >= 1 /\ write_failed[c]
        /\ user_id[c] # None
        /\ \/ user_embeddings_cache[user_id[c]] # None
           \/ user_id[c] \in user_latents

\* The sentence-final marks of the family of a language.
Family(language) ==
    IF language \in CJK_LANGUAGES THEN CJK_FINAL ELSE WESTERN_FINAL

RECURSIVE FirstMark(_, _, _)
\* Position of the first mark of t at or after p; 0 when there is none.
FirstMark(t, final, p) ==
    IF p > Len(t) THEN 0
    ELSE IF t[p] \in final THEN p
    ELSE FirstMark(t, final, p + 1)

\* What follows the first sentence of t, and what follows the white space
\* after it.
AfterFirst(t, final) == SubSeq(t, FirstMark(t, final, 1) + 1, Len(t))
AfterGap(t, final) ==
    SubSeq(AfterFirst(t, final), WsRun(AfterFirst(t, final), 1) + 1,
           Len(AfterFirst(t, final)))

RECURSIVE MadeOfSentences(_, _)
\* t is one or more sentences, each running up to its only mark, with white
\* space between one sentence and the next and nowhere around them.
MadeOfSentences(t, final) ==
    /\ t # <<>>
    /\ ~IsSpace(t[1])
    /\ FirstMark(t, final, 1) > 0
    /\ \/ AfterFirst(t, final) = <<>>
       \/ /\ WsRun(AfterFirst(t, final), 1) >= 1
          /\ MadeOfSentences(AfterGap(t, final), final)

RECURSIVE SentencesOf(_, _)
\* The sentences a text made of sentences is made of, in order.
SentencesOf(t, final) ==
    IF t = <<>> THEN <<>>
    ELSE <<SubSeq(t, 1, FirstMark(t, final, 1))>>
         \o (IF AfterFirst(t, final) = <<>> THEN <<>>
             ELSE SentencesOf(AfterGap(t, final), final))

\* C28: the segmentation of a text made of k >= 1 sentences, each ending in
\* one mark of the family of the language and separated by white space, is
\* exactly those k sentences in their order, for Western and CJK languages.
C28_SegmentationYieldsTheSentences ==
    \A c \in Conns :
        (/\ pc[c] = "segmented"
         /\ MadeOfSentences(data[c].text.s, Family(data[c].language)))
        => sentences[c] = SentencesOf(data[c].text.s, Family(data[c].language))

\* C28 witness: a two-sentence text with a full-width and a Western mark has
\* been segmented for Korean into its two sentences.
C28_Witness ==
    \E c \in Conns :
        /\ pc[c] = "segmented"
        /\ data[c].language = "ko"
        /\ data[c].text.s = <<"a", "cdot", "sp", "b", "dot">>
        /\ sentences[c] = << <<"a", "cdot">>, <<"b", "dot">> >>

\* C29: a non-blank text without a sentence-final mark is segmented into one
\* sentence, the text stripped; and the loop over the sentences is entered
\* with at least one sentence, the whole text when the segmentation is empty.
C29_UnpunctuatedIsOneSentence ==
    \A c \in Conns :
        /\ (/\ pc[c] = "segmented"
            /\ strip(data[c].text.s) # <<>>
            /\ FirstMark(data[c].text.s, Family(data[c].language), 1) = 0)
           => sentences[c] = <<strip(data[c].text.s)>>
        /\ pc[c] = "enumerate" =>
              /\ sentences[c] # <<>>
              /\ split_into_sentences(data[c].text.s, data[c].language) = <<>>
                     => sentences[c] = <<data[c].text.s>>

\* C29 witness: a blank text was segmented into nothing, and the loop is
\* entered with the text as its one sentence.
C29_Witness ==
    \E c \in Conns :
        /\ pc[c] = "enumerate"
        /\ data[c].text.s = <<"sp", "sp">>
        /\ sentences[c] = << <<"sp", "sp">> >>

\* The lookup made when connection c was accepted found a signature.
Found(c) ==
    IF revision = "xtts" THEN user_id[c] \in user_latents ELSE target_se[c] # None

\* The engine the running revision synthesizes with is not initialized.
EngineMissing ==
    IF revision = "xtts" THEN ~tts_model ELSE ~tone_color_converter

\* C30: while the engine is not initialized, an accepted connection never
\* reads a request and never sends an audio frame; its handler only sends
\* the rejection and ends, and the connection is closed with code 4002 when
\* the user's signature was found and with 4001 when it was not, unless the
\* client left first.
C30_EngineMissingClosed4002 ==
    \A c \in Conns :
        (user_id[c] # None /\ EngineMissing) =>
            LET code == IF Found(c) THEN CLOSE_MODEL_NOT_LOADED
                        ELSE CLOSE_NOT_ENROLLED
            IN  /\ pc[c] \in {IF Found(c) THEN "reject_4002" ELSE "reject_4001",
                              "closed"}
                /\ req_no[c] = 0
                /\ FramesOf(out[c]) = <<>>
                /\ close_code[c] \subseteq {code}
                /\ (pc[c] = "closed" /\ ~write_failed[c]) =>
                     /\ close_code[c] = {code}
                     /\ transport[c] = "closed"

\* C30 witness: the connection of an enrolled user was closed with 4002
\* after the client had sent a request that was never read.
C30_Witness ==
    \E c \in Conns :
        /\ EngineMissing /\ Found(c)
        /\ pc[c] = "closed" /\ close_code[c] = {CLOSE_MODEL_NOT_LOADED}
        /\ inbox[c] # <<>> /\ req_no[c] = 0

\* The handler of connection c is about to report an exception of the
\* orchestrator (server.py: of the inner try block) to a client that is
\* still there.
ReportsException(c) ==
    pc[c] = "send_error" /\ detail[c] = "TTS error" /\ transport[c] = "open"

\* C31: an exception raised by the orchestrator for a request is reported
\* as one inline error message (in server_openvoice_v2.py the only message
\* of the request); the connection stays open with no close code, and the
\* handler is back at receive_json, where the next request is read.
C31_OrchestratorErrorInline ==
    [][\A c \in Conns :
          (ReportsException(c) /\ pc'[c] # pc[c]) =>
              /\ out'[c] = Append(out[c], ErrorMsg("TTS error"))
              /\ revision = "openvoice_v2" => out[c] = <<>>
              /\ pc'[c] = "ready" /\ can_receive(pc'[c])
              /\ transport'[c] = "open"
              /\ close_code'[c] = {}]_vars

\* C31 witness: the first request of a connection was answered by the one
\* error message of an orchestrator exception, and the handler is back at
\* receive_json with the second request waiting.
C31_Witness ==
    \E c \in Conns :
        /\ req_no[c] = 1 /\ pc[c] = "ready"
        /\ out[c] = <<ErrorMsg("TTS error")>>
        /\ transport[c] = "open" /\ inbox[c] # <<>>

\* C32: a frame that is not a JSON object, an error the request loop does
\* not handle inline, takes the handler to the close with code 4000; that
\* close is the only source of the code, it ends the handler, and an ended
\* handler sends no message and no close code; a connection the client has
\* left never carries a close code.
C32_InternalErrorClosed4000 ==
    [][\A c \in Conns :
          /\ (/\ pc[c] = "ready" /\ inbox[c] # <<>>
              /\ Head(inbox[c]).kind # "object"
              /\ req_no'[c] = req_no[c] + 1) => pc'[c] = "close_4000"
          /\ (pc[c] = "close_4000" /\ pc'[c] # pc[c]) =>
                /\ pc'[c] = "closed"
                /\ out'[c] = out[c]
                /\ transport[c] = "open" =>
                      /\ close_code'[c] = {CLOSE_INTERNAL_ERROR}
                      /\ transport'[c] = "closed"
          /\ (CLOSE_INTERNAL_ERROR \in close_code'[c] /\ close_code[c] = {}) =>
                pc[c] = "close_4000"
          /\ pc[c] = "closed" =>
                /\ pc'[c] = "closed"
                /\ out'[c] = out[c]
                /\ close_code'[c] = close_code[c]
          /\ transport'[c] = "gone" => close_code'[c] = {}]_vars

\* C32 witness: a frame that is not JSON was read and the connection was
\* closed with code 4000, with no message sent for it.
C32_Witness ==
    \E c \in Conns :
        /\ req_no[c] = 1 /\ data[c].kind = "notjson"
        /\ pc[c] = "closed" /\ transport[c] = "closed"
        /\ close_code[c] = {CLOSE_INTERNAL_ERROR}
        /\ out[c] = <<>>

\* The audio of a sentence of session t converted with the signature of t.
OwnAudio(t) == [src |-> t, se |-> t]

\* C33: over every interleaving of the sessions, the audio a session is
\* about to send as a binary frame renders its own sentence with its own
\* signature, and a session that still has to read the base file of its
\* sentence finds the file it wrote: no session reads a file of another,
\* and no cleanup removes a file that is still to be read.
C33_FramesAreOwn ==
    \A t \in Sessions :
        /\ tasks[t].pc = "await_send_bytes" => tasks[t].audio = OwnAudio(t)
        /\ tasks[t].pc = "convert" => tmp_files[sentence_index(t)].base = t

\* C33 witness: both sessions wait in send_bytes for the sentence of index
\* 0, each holding its own audio, while the files of the index are those of
\* the second session, which the cleanup of the first will remove.
C33_Witness ==
    /\ revision = "openvoice_v2"
    /\ tasks["c1"].pc = "await_send_bytes" /\ tasks["c2"].pc = "await_send_bytes"
    /\ sentence_index("c1") = 0 /\ sentence_index("c2") = 0
    /\ tasks["c1"].audio = OwnAudio("c1") /\ tasks["c2"].audio = OwnAudio("c2")
    /\ tmp_files[0] = [base |-> "c2", out |-> OwnAudio("c2")]

\* C34: once the handler of a connection holds a signature it keeps that
\* signature for every request, whatever is enrolled or deleted meanwhile;
\* and an enrollment or deletion leaves the handler, its transport and what
\* it has sent as they were: no close, no error message.
C34_SignatureFixedAtConnect ==
    [][\A c \in Conns :
          /\ (pc[c] # "connecting" /\ target_se[c] # None)
                => target_se'[c] = target_se[c]
          /\ call' # call =>
                /\ pc'[c] = pc[c] /\ transport'[c] = transport[c]
                /\ close_code'[c] = close_code[c] /\ out'[c] = out[c]
                /\ detail'[c] = detail[c]]_vars

\* C34 witness: the user of an open session has been deleted from memory
\* and from the local directory, and the session is sending a frame made
\* with the signature it resolved at connect.
C34_Witness ==
    \E c \in Conns :
        /\ call.op = "delete" /\ call.status = "200" /\ call.user = user_id[c]
        /\ user_embeddings_cache[user_id[c]] = None
        /\ local_files[user_id[c]] = None
        /\ pc[c] = "send_bytes" /\ transport[c] = "open"
        /\ target_se[c] = "s1"

\* Two tiers agree on user u: one of them holds nothing, or both hold the
\* same signature.
Agree(a, b, u) == a[u] = None \/ b[u] = None \/ a[u] = b[u]

\* C35: in every reachable state any two tiers that both hold a signature
\* for a user hold the same signature.
C35_TiersCoherent ==
    \A u \in Users :
        /\ Agree(user_embeddings_cache, local_files, u)
        /\ Agree(user_embeddings_cache, s3_objects, u)
        /\ Agree(local_files, s3_objects, u)

\* C36: an enrollment, a get or a deletion for one user leaves the entry of
\* every other user as it was in the memory, local and remote tiers.
C36_OtherUsersUntouched ==
    [][\A v \in Users :
          v # call'.user =>
              /\ user_embeddings_cache'[v] = user_embeddings_cache[v]
              /\ local_files'[v] = local_files[v]
              /\ s3_objects'[v] = s3_objects[v]]_vars

\* Both racing requests have been answered and no write or removal of
\* either failed.
RaceDone ==
    \A t \in Racers : tasks[t].pc = "responded" /\ ~tasks[t].failed

\* C37: once two concurrent calls for the same user (two enrollments, or an
\* enrollment and a deletion) have finished without storage failure, the
\* memory, local and remote tiers all hold the result of the same call: one
\* signature in all three, or nothing in any.
C37_ConcurrentCallsLeaveOneResult ==
    RaceDone =>
        /\ user_embeddings_cache[RaceUser] = local_files[RaceUser]
        /\ local_files[RaceUser] = s3_objects[RaceUser]

=============================================================================
